---- MODULE Spec2Model ----
(***************************************************************************)
(* The cursor (zipper) of jed: src/src/cursor.rs.  A Cursor is a top-level *)
(* index into a shared sequence of JSON values, a stack of CursorFrames    *)
(* (the ancestors of the focus), the focused value and a FocusPosition.    *)
(* The fold set is owned by the caller and passed to every step.           *)
(***************************************************************************)
EXTENDS Integers, Sequences, FiniteSets, TLC

VARIABLES
    jsons,           \* Cursor.jsons: Rc<[JV]>, the top-level values (never assigned by a step)
    top_index,       \* Cursor.top_index
    frames,          \* Cursor.frames: Vec<CursorFrame>
    focus,           \* Cursor.focus
    focus_position,  \* Cursor.focus_position
    folds,           \* the caller's HashSet<(usize, Vec<usize>)>
    hist,            \* the last two calls made on the cursor: what was called, what it returned, the cursor before
    route,           \* how the cursor got here: "advances", "steps" or "path"
    lines,           \* the lines rendered on the way from Cursor::new by advance alone
    walked,          \* the Paths of the positions on the way from Cursor::new by advance alone
    twin,            \* a second Cursor over the same jsons, made by Clone::clone (None before)
    probe            \* the arguments and the result of the last call that is not a step of the cursor

vars == <<jsons, top_index, frames, focus, focus_position, folds, hist, route, lines,
          walked, twin, probe>>

----------------------------------------------------------------------------
(* Bounds of the model. *)

\* total number of JSON nodes in the generated top-level sequences
MaxNodes == 3
\* largest number of fold keys in the fold set
MaxFolds == 1
\* the longest frame-index sequence of a Path given to a function on its own
MaxPathDepth == 2
\* the largest index of a Path given to a function on its own
MaxIndex == 1
\* the longest frame stack whose length is converted on its own: the first a u8 cannot hold
DeepNesting == 256
\* the largest number of lines a view is asked to show
MaxLineLimit == 2

----------------------------------------------------------------------------
(* The value model: jq::jv::JV.  One record shape for the six variants.    *)

JVNull == [kind |-> "Null", value |-> "null", elems |-> <<>>, entries |-> <<>>]
JVBool(b) == [kind |-> "Bool", value |-> b, elems |-> <<>>, entries |-> <<>>]
JVNumber(x) == [kind |-> "Number", value |-> x, elems |-> <<>>, entries |-> <<>>]
JVString(s) == [kind |-> "String", value |-> s, elems |-> <<>>, entries |-> <<>>]
\* an array of the given elements
JVArray(elems) == [kind |-> "Array", value |-> "", elems |-> elems, entries |-> <<>>]
\* an object of the given (key, value) entries, in iteration order
JVObject(entries) == [kind |-> "Object", value |-> "", elems |-> <<>>, entries |-> entries]

Entry(k, v) == [key |-> k, value |-> v]

\* Option<T>: None is <<>>, Some(x) is <<x>>
None == <<>>
Some(x) == <<x>>

\* JVArray::len
ArrayLen(arr) == Len(arr.elems)

\* JVArray::get(i): Some(child) when 0 <= i < len, None otherwise (i counts from 0)
ArrayGet(arr, i) ==
    IF 0 <= i /\ i < ArrayLen(arr) THEN Some(arr.elems[i + 1]) ELSE None

\* JVObject::into_iter: an iterator is the sequence of entries it has yet to yield
ObjectIter(obj) == obj.entries

\* Iterator::nth(n) on an iterator it: the entry it yields (None when it runs out) ...
IterNth(it, n) == IF n < Len(it) THEN Some(it[n + 1]) ELSE None
\* variant of IterAfterNth that leaves the n-th item in the iterator
IterAfterNthKeepsFound(it, n) == IF n < Len(it) THEN SubSeq(it, n + 1, Len(it)) ELSE <<>>

\* ... and the iterator left behind, positioned right after that entry
IterAfterNth(it, n) == IF n < Len(it) THEN SubSeq(it, n + 2, Len(it)) ELSE <<>>

----------------------------------------------------------------------------
(* FocusPosition                                                           *)

IsContainer(json) == json.kind \in {"Array", "Object"}

\* FocusPosition::starting
starting(json) == IF IsContainer(json) THEN "Start" ELSE "Value"

\* variant of ending that answers Value for every value
endingAsValue(json) == "Value"

\* variant of ending without the match on the kind of the value
endingAlways(json) == "End"

\* FocusPosition::ending
ending(json) == IF IsContainer(json) THEN "End" ELSE "Value"

\* derive(PartialOrd, Ord) on FocusPosition: Start < Value < End
PositionRank(p) == CASE p = "Start" -> 0 [] p = "Value" -> 1 [] p = "End" -> 2

----------------------------------------------------------------------------
(* CursorFrame                                                             *)

ArrayFrame(index, json) ==
    [kind |-> "Array", index |-> index, key |-> "", json |-> json, iterator |-> <<>>]

ObjectFrame(index, key, json, iterator) ==
    [kind |-> "Object", index |-> index, key |-> key, json |-> json, iterator |-> iterator]

\* variant of FrameEq that compares the containers alone
FrameEqJsonOnly(f, g) ==
    /\ f.kind = g.kind
    /\ f.json = g.json

\* impl PartialEq for CursorFrame: the iterator is not compared
FrameEq(f, g) ==
    /\ f.kind = g.kind
    /\ f.index = g.index
    /\ f.json = g.json
    /\ (f.kind = "Object" => f.key = g.key)

\* what open_container, open_container_end and CursorFrame::{advance,regress} return:
\* (Option<CursorFrame>, JV, FocusPosition), or a panic
Triple(frame, json, position) ==
    [panic |-> FALSE, frame |-> frame, focus |-> json, focus_position |-> position]
Panic(json) ==
    [panic |-> TRUE, frame |-> None, focus |-> json, focus_position |-> "Value"]

\* variant of open_container whose object frame keeps the iterator before next()
open_container_fresh(json) ==
    CASE json.kind = "Array" ->
            IF json.elems = <<>>
            THEN Triple(None, json, "End")
            ELSE Triple(Some(ArrayFrame(0, json)), json.elems[1], starting(json.elems[1]))
      [] json.kind = "Object" ->
            IF json.entries = <<>>
            THEN Triple(None, json, "End")
            ELSE Triple(Some(ObjectFrame(0, json.entries[1].key, json, json.entries)),
                        json.entries[1].value, starting(json.entries[1].value))
      [] OTHER -> Panic(json)

\* fn open_container
open_container(json) ==
    CASE json.kind = "Array" ->
            IF json.elems = <<>>
            THEN Triple(None, json, "End")
            ELSE LET child == Head(json.elems)
                 IN  Triple(Some(ArrayFrame(0, json)), child, starting(child))
      [] json.kind = "Object" ->
            LET iterator == ObjectIter(json)
            IN  IF iterator = <<>>
                THEN Triple(None, json, "End")
                ELSE LET first == Head(iterator)
                     IN  Triple(Some(ObjectFrame(0, first.key, json, Tail(iterator))),
                                first.value, starting(first.value))
      [] OTHER -> Panic(json)


\* variant of open_container_end that leaves an empty container at its End
open_container_end_stuck(json) ==
    CASE json.kind = "Array" ->
            IF json.elems = <<>>
            THEN Triple(None, json, "End")
            ELSE LET index == Len(json.elems) - 1
                     child == json.elems[index + 1]
                 IN  Triple(Some(ArrayFrame(index, json)), child, ending(child))
      [] json.kind = "Object" ->
            IF json.entries = <<>>
            THEN Triple(None, json, "End")
            ELSE LET index == Len(json.entries) - 1
                     e == json.entries[index + 1]
                 IN  Triple(Some(ObjectFrame(index, e.key, json, <<>>)), e.value, ending(e.value))
      [] OTHER -> Panic(json)

\* variant of open_container_end that opens at the first child
open_container_end_first(json) ==
    CASE json.kind = "Array" ->
            IF ArrayLen(json) = 0
            THEN Triple(None, json, "Start")
            ELSE Triple(Some(ArrayFrame(0, json)), json.elems[1], ending(json.elems[1]))
      [] json.kind = "Object" ->
            IF json.entries = <<>>
            THEN Triple(None, json, "Start")
            ELSE Triple(Some(ObjectFrame(0, json.entries[1].key, json, Tail(json.entries))),
                        json.entries[1].value, ending(json.entries[1].value))
      [] OTHER -> Panic(json)

\* variant of open_container_end whose object frame keeps a fresh iterator
open_container_end_fresh(json) ==
    CASE json.kind = "Array" ->
            IF ArrayLen(json) = 0
            THEN Triple(None, json, "Start")
            ELSE LET index == ArrayLen(json) - 1
                 IN  Triple(Some(ArrayFrame(index, json)),
                            json.elems[index + 1], ending(json.elems[index + 1]))
      [] json.kind = "Object" ->
            LET iterator == ObjectIter(json)
            IN  IF iterator = <<>>
                THEN Triple(None, json, "Start")
                ELSE LET last == iterator[Len(iterator)]
                         index == Len(json.entries) - 1
                     IN  Triple(Some(ObjectFrame(index, last.key, json, iterator)),
                                last.value, ending(last.value))
      [] OTHER -> Panic(json)

\* fn open_container_end
open_container_end(json) ==
    CASE json.kind = "Array" ->
            IF ArrayLen(json) = 0
            THEN Triple(None, json, "Start")
            ELSE LET index == ArrayLen(json) - 1
                     child == ArrayGet(json, index)
                 IN  IF child = None
                     THEN Panic(json)
                     ELSE Triple(Some(ArrayFrame(index, json)), child[1], ending(child[1]))
      [] json.kind = "Object" ->
            LET iterator == ObjectIter(json)
            IN  IF iterator = <<>>
                THEN Triple(None, json, "Start")
                ELSE LET last == iterator[Len(iterator)]
                         index == Len(json.entries) - 1
                     IN  Triple(Some(ObjectFrame(index, last.key, json, <<>>)),
                                last.value, ending(last.value))
      [] OTHER -> Panic(json)

\* CursorFrame::index
FrameIndex(frame) == frame.index

\* variant of FrameAdvance that keeps the index of the frame it came from
FrameAdvanceStaleIndex(frame) ==
    IF frame.kind = "Array"
    THEN LET child == ArrayGet(frame.json, frame.index + 1)
         IN  IF child = None
             THEN Triple(None, frame.json, "End")
             ELSE Triple(Some(ArrayFrame(frame.index, frame.json)),
                         child[1], starting(child[1]))
    ELSE IF frame.iterator = <<>>
         THEN Triple(None, frame.json, "End")
         ELSE LET next == Head(frame.iterator)
              IN  Triple(Some(ObjectFrame(frame.index, next.key, frame.json,
                                          Tail(frame.iterator))),
                         next.value, starting(next.value))

\* CursorFrame::advance
FrameAdvance(frame) ==
    IF frame.kind = "Array"
    THEN LET child == ArrayGet(frame.json, frame.index + 1)
         IN  IF child = None
             THEN Triple(None, frame.json, "End")
             ELSE Triple(Some(ArrayFrame(frame.index + 1, frame.json)),
                         child[1], starting(child[1]))
    ELSE IF frame.iterator = <<>>
         THEN Triple(None, frame.json, "End")
         ELSE LET next == Head(frame.iterator)
              IN  Triple(Some(ObjectFrame(frame.index + 1, next.key, frame.json,
                                          Tail(frame.iterator))),
                         next.value, starting(next.value))

\* variant of FrameRegress that lands on the previous sibling with FocusPosition::starting
FrameRegressStarting(frame) ==
    IF frame.index = 0
    THEN Triple(None, frame.json, "Start")
    ELSE LET index == frame.index - 1
             child == IF frame.kind = "Array"
                      THEN frame.json.elems[index + 1]
                      ELSE frame.json.entries[index + 1].value
         IN  IF frame.kind = "Array"
             THEN Triple(Some(ArrayFrame(index, frame.json)), child, starting(child))
             ELSE Triple(Some(ObjectFrame(index, frame.json.entries[index + 1].key,
                                          frame.json,
                                          IterAfterNth(ObjectIter(frame.json), index))),
                         child, starting(child))

\* variant of FrameRegress that closes the container (End) when the index underflows
FrameRegressClosing(frame) ==
    IF frame.index = 0
    THEN Triple(None, frame.json, "End")
    ELSE LET index == frame.index - 1
             child == IF frame.kind = "Array"
                      THEN frame.json.elems[index + 1]
                      ELSE frame.json.entries[index + 1].value
         IN  IF frame.kind = "Array"
             THEN Triple(Some(ArrayFrame(index, frame.json)), child, ending(child))
             ELSE Triple(Some(ObjectFrame(index, frame.json.entries[index + 1].key,
                                          frame.json,
                                          IterAfterNth(ObjectIter(frame.json), index))),
                         child, ending(child))

\* CursorFrame::regress
FrameRegress(frame) ==
    IF frame.index = 0
    THEN Triple(None, frame.json, "Start")
    ELSE LET index == frame.index - 1
         IN  IF frame.kind = "Array"
             THEN LET child == ArrayGet(frame.json, index)
                  IN  IF child = None
                      THEN Panic(frame.json)
                      ELSE Triple(Some(ArrayFrame(index, frame.json)),
                                  child[1], ending(child[1]))
             ELSE LET iterator == ObjectIter(frame.json)
                      found == IterNth(iterator, index)
                  IN  IF found = None
                      THEN Panic(frame.json)
                      ELSE Triple(Some(ObjectFrame(index, found[1].key, frame.json,
                                                   IterAfterNth(iterator, index))),
                                  found[1].value, ending(found[1].value))

----------------------------------------------------------------------------
(* Cursor and Path                                                         *)

\* struct Cursor, without the shared jsons
MkCursor(t, fs, f, p) ==
    [top_index |-> t, frames |-> fs, focus |-> f, focus_position |-> p]

\* the cursor the state holds
Self == MkCursor(top_index, frames, focus, focus_position)

\* derive(PartialEq) on Cursor, over CursorFrame's PartialEq (the jsons are shared)
CursorEq(c, d) ==
    /\ c.top_index = d.top_index
    /\ Len(c.frames) = Len(d.frames)
    /\ \A i \in 1..Len(c.frames) : FrameEq(c.frames[i], d.frames[i])
    /\ c.focus = d.focus
    /\ c.focus_position = d.focus_position

\* struct Path
MkPath(t, fs, p) == [top_index |-> t, frames |-> fs, focus_position |-> p]

\* Cursor::to_path
to_path(c) ==
    MkPath(c.top_index,
           [i \in 1..Len(c.frames) |-> FrameIndex(c.frames[i])],
           c.focus_position)

\* Path::strip_position: the fold key
strip_position(path) == <<path.top_index, path.frames>>

\* Ord::cmp on usize and on FocusPosition
CmpInt(a, b) == IF a < b THEN "Less" ELSE IF a > b THEN "Greater" ELSE "Equal"

\* variant of CmpFrames whose arm (Some(_), None) answers as the arm (None, Some(_)) does
RECURSIVE CmpFramesCopied(_, _, _)
CmpFramesCopied(self, other, i) ==
    CASE i <= Len(self.frames) /\ i <= Len(other.frames) ->
            IF self.frames[i] = other.frames[i]
            THEN CmpFramesCopied(self, other, i + 1)
            ELSE IF self.frames[i] < other.frames[i] THEN "Less" ELSE "Greater"
      [] i > Len(self.frames) /\ i <= Len(other.frames) ->
            (CASE self.focus_position = "Start" -> "Less"
               [] self.focus_position = "Value" -> "Panic"
               [] self.focus_position = "End" -> "Greater")
      [] i <= Len(self.frames) /\ i > Len(other.frames) ->
            (CASE other.focus_position = "Start" -> "Less"
               [] other.focus_position = "Value" -> "Panic"
               [] other.focus_position = "End" -> "Greater")
      [] OTHER ->
            IF self.focus_position = other.focus_position
            THEN "Equal"
            ELSE IF self.focus_position = "Start" \/ other.focus_position = "End"
                 THEN "Less"
                 ELSE "Greater"

\* the loop of Path::cmp, from the i-th frame index on
RECURSIVE CmpFrames(_, _, _)
CmpFrames(self, other, i) ==
    CASE i <= Len(self.frames) /\ i <= Len(other.frames) ->
            IF CmpInt(self.frames[i], other.frames[i]) = "Equal"
            THEN CmpFrames(self, other, i + 1)
            ELSE CmpInt(self.frames[i], other.frames[i])
      [] i > Len(self.frames) /\ i <= Len(other.frames) ->
            (CASE self.focus_position = "Start" -> "Less"
               [] self.focus_position = "Value" -> "Panic"
               [] self.focus_position = "End" -> "Greater")
      [] i <= Len(self.frames) /\ i > Len(other.frames) ->
            (CASE other.focus_position = "Start" -> "Greater"
               [] other.focus_position = "Value" -> "Panic"
               [] other.focus_position = "End" -> "Less")
      [] OTHER ->
            CmpInt(PositionRank(self.focus_position), PositionRank(other.focus_position))

\* variant of cmp that does not compare top_index
cmpFramesOnly(self, other) == CmpFrames(self, other, 1)

\* variant of cmp that answers Less where Path::cmp panics
cmpLenient(self, other) ==
    IF CmpInt(self.top_index, other.top_index) # "Equal"
    THEN CmpInt(self.top_index, other.top_index)
    ELSE IF CmpFrames(self, other, 1) = "Panic"
         THEN "Less"
         ELSE CmpFrames(self, other, 1)

\* impl Ord for Path: Less, Equal, Greater, or Panic
cmp(self, other) ==
    IF CmpInt(self.top_index, other.top_index) # "Equal"
    THEN CmpInt(self.top_index, other.top_index)
    ELSE CmpFrames(self, other, 1)

\* what a Cursor method returns: ret is "Some", "None" or "Panic", with the cursor it leaves
Ret(ret, c) == [ret |-> ret, cursor |-> c]

\* variant of new that puts the cursor at Value on every root
newAtValue(js) ==
    IF js = <<>>
    THEN None
    ELSE Some(MkCursor(0, <<>>, js[1], "Value"))

\* Cursor::new
new(js) ==
    IF js = <<>>
    THEN None
    ELSE Some(MkCursor(0, <<>>, js[1], starting(js[1])))

\* the loop of Cursor::from_path, from the i-th frame index on
RECURSIVE FromPathLoop(_, _, _, _)
FromPathLoop(path, i, fs, f) ==
    IF i > Len(path.frames)
    THEN Ret("Some", MkCursor(path.top_index, fs, f, path.focus_position))
    ELSE LET index == path.frames[i]
         IN  CASE f.kind = "Array" ->
                    LET child == ArrayGet(f, index)
                    IN  IF child = None
                        THEN Ret("Panic", MkCursor(path.top_index, fs, f, path.focus_position))
                        ELSE FromPathLoop(path, i + 1,
                                          Append(fs, ArrayFrame(index, f)), child[1])
               [] f.kind = "Object" ->
                    LET iterator == ObjectIter(f)
                        found == IterNth(iterator, index)
                    IN  IF found = None
                        THEN Ret("Panic", MkCursor(path.top_index, fs, f, path.focus_position))
                        ELSE FromPathLoop(path, i + 1,
                                          Append(fs, ObjectFrame(index, found[1].key, f,
                                                                 IterAfterNth(iterator, index))),
                                          found[1].value)
               [] OTHER -> Ret("Panic", MkCursor(path.top_index, fs, f, path.focus_position))

\* variant of from_path that takes the focus_position from the focus, not from the Path
from_path_starting(js, path) ==
    IF path.top_index >= Len(js)
    THEN Ret("Panic", MkCursor(path.top_index, <<>>, JVNull, path.focus_position))
    ELSE LET r == FromPathLoop(path, 1, <<>>, js[path.top_index + 1])
         IN  Ret(r.ret, MkCursor(r.cursor.top_index, r.cursor.frames, r.cursor.focus,
                                 starting(r.cursor.focus)))

\* variant of from_path that takes the last root when top_index is past the roots
from_path_last_root(js, path) ==
    IF path.top_index >= Len(js)
    THEN FromPathLoop(path, 1, <<>>, js[Len(js)])
    ELSE FromPathLoop(path, 1, <<>>, js[path.top_index + 1])

\* Cursor::from_path
from_path(js, path) ==
    IF path.top_index >= Len(js)
    THEN Ret("Panic", MkCursor(path.top_index, <<>>, JVNull, path.focus_position))
    ELSE FromPathLoop(path, 1, <<>>, js[path.top_index + 1])

\* impl Clone for Cursor
clone(js, c) == from_path(js, to_path(c))

\* the frame stack with an Option<CursorFrame> pushed
Push(fs, new_frame) == fs \o new_frame

\* the frame stack after Vec::pop
Popped(fs) == SubSeq(fs, 1, Len(fs) - 1)

\* the cursor after a step's (Option<CursorFrame>, JV, FocusPosition) is stored
Stepped(c, fs, r) ==
    IF r.panic
    THEN Ret("Panic", c)
    ELSE Ret("Some", MkCursor(c.top_index, Push(fs, r.frame), r.focus, r.focus_position))

\* Cursor::advance, first arm: descend into the container under the focus
AdvanceOpen(c) == Stepped(c, c.frames, open_container(c.focus))

\* variant of AdvanceNext that adds one to top_index before looking for the next value
AdvanceNextEager(js, c) ==
    IF c.frames = <<>>
    THEN IF c.top_index + 1 >= Len(js)
         THEN Ret("None", MkCursor(c.top_index + 1, c.frames, c.focus, c.focus_position))
         ELSE LET f == js[c.top_index + 2]
              IN  Ret("Some", MkCursor(c.top_index + 1, <<>>, f, starting(f)))
    ELSE Stepped(c, Popped(c.frames), FrameAdvance(c.frames[Len(c.frames)]))

\* variant of AdvanceNext that goes from the last top-level value round to the first
AdvanceNextWrapping(js, c) ==
    IF c.frames = <<>>
    THEN LET t == (c.top_index + 1) % Len(js)
             f == js[t + 1]
         IN  Ret("Some", MkCursor(t, <<>>, f, starting(f)))
    ELSE Stepped(c, Popped(c.frames), FrameAdvance(c.frames[Len(c.frames)]))

\* Cursor::advance, second arm: pop the top frame and advance it, or move to
\* the next top-level value, or return None where there is none
AdvanceNext(js, c) ==
    IF c.frames = <<>>
    THEN IF c.top_index + 1 >= Len(js)
         THEN Ret("None", c)
         ELSE LET f == js[c.top_index + 2]
              IN  Ret("Some", MkCursor(c.top_index + 1, <<>>, f, starting(f)))
    ELSE Stepped(c, Popped(c.frames), FrameAdvance(c.frames[Len(c.frames)]))

\* variant of advance without the guard !is_folded
advanceIgnoringFolds(js, c, fds) ==
    IF c.focus_position = "Start" THEN AdvanceOpen(c) ELSE AdvanceNext(js, c)

\* variant of advance that moves a folded Start to the End of the same container
advanceFoldToEnd(js, c, fds) ==
    IF c.focus_position = "Start"
    THEN IF strip_position(to_path(c)) \in fds
         THEN Ret("Some", MkCursor(c.top_index, c.frames, c.focus, "End"))
         ELSE AdvanceOpen(c)
    ELSE AdvanceNext(js, c)

\* variant of advance that finds nothing after a folded Start
advanceFoldedExhausts(js, c, fds) ==
    IF c.focus_position = "Start"
    THEN IF strip_position(to_path(c)) \in fds THEN Ret("None", c) ELSE AdvanceOpen(c)
    ELSE AdvanceNext(js, c)

\* Cursor::advance
advance(js, c, fds) ==
    LET is_folded == strip_position(to_path(c)) \in fds
    IN  IF c.focus_position = "Start" /\ ~is_folded
        THEN AdvanceOpen(c)
        ELSE AdvanceNext(js, c)

\* variant of RegressOpen that descends to the first child
RegressOpenFirst(c) == Stepped(c, c.frames, open_container(c.focus))

\* Cursor::regress, first arm: descend to the last child of the container under the focus
RegressOpen(c) == Stepped(c, c.frames, open_container_end(c.focus))

\* variant of RegressPrev with saturating_sub in place of checked_sub
RegressPrevSaturating(js, c) ==
    IF c.frames = <<>>
    THEN LET t == IF c.top_index = 0 THEN 0 ELSE c.top_index - 1
             f == js[t + 1]
         IN  Ret("Some", MkCursor(t, <<>>, f, ending(f)))
    ELSE Stepped(c, Popped(c.frames), FrameRegress(c.frames[Len(c.frames)]))

\* Cursor::regress, second arm: pop the top frame and regress it, or move to the
\* previous top-level value, or return None where there is none
RegressPrev(js, c) ==
    IF c.frames = <<>>
    THEN IF c.top_index = 0
         THEN Ret("None", c)
         ELSE LET f == js[c.top_index]
              IN  Ret("Some", MkCursor(c.top_index - 1, <<>>, f, ending(f)))
    ELSE Stepped(c, Popped(c.frames), FrameRegress(c.frames[Len(c.frames)]))

\* variant of SurfaceFolded that moves a folded landing to the End of a container
SurfaceAtEnd(c, fds) ==
    IF strip_position(to_path(c)) \in fds
    THEN MkCursor(c.top_index, c.frames, c.focus, ending(c.focus))
    ELSE c

\* variant of SurfaceFolded that leaves the landing as the structural step made it
SurfaceNever(c, fds) == c

\* the end of Cursor::regress: a landing whose fold key is folded is moved to Start
SurfaceFolded(c, fds) ==
    IF strip_position(to_path(c)) \in fds
    THEN MkCursor(c.top_index, c.frames, c.focus, "Start")
    ELSE c

\* variant of regress without the check of is_folded
regressIgnoringFolds(js, c, fds) ==
    IF c.focus_position = "End" THEN RegressOpen(c) ELSE RegressPrev(js, c)

\* Cursor::regress
regress(js, c, fds) ==
    LET r == IF c.focus_position = "End" THEN RegressOpen(c) ELSE RegressPrev(js, c)
    IN  IF r.ret = "Some" THEN Ret("Some", SurfaceFolded(r.cursor, fds)) ELSE r

----------------------------------------------------------------------------
(* Lines                                                                   *)

\* struct Line; a container tag carries the size 0, as current_line writes it
MkLine(tag, value, key, folded, comma, indent) ==
    [content |-> [tag |-> tag, value |-> value, size |-> 0],
     key |-> key, folded |-> folded, comma |-> comma, indent |-> indent]

\* the LineContent of a (focus, focus_position) pair; the tag Panic is the illegal pairing
ContentTag(json, position) ==
    CASE json.kind = "Object" /\ position = "Start" -> "ObjectStart"
      [] json.kind = "Object" /\ position = "End" -> "ObjectEnd"
      [] json.kind = "Array" /\ position = "Start" -> "ArrayStart"
      [] json.kind = "Array" /\ position = "End" -> "ArrayEnd"
      [] json.kind = "Null" /\ position = "Value" -> "Null"
      [] json.kind = "Bool" /\ position = "Value" -> "Bool"
      [] json.kind = "Number" /\ position = "Value" -> "Number"
      [] json.kind = "String" /\ position = "Value" -> "String"
      [] OTHER -> "Panic"

\* the key of current_line
LineKey(c) ==
    IF c.focus_position = "End" \/ c.frames = <<>>
    THEN None
    ELSE LET top == c.frames[Len(c.frames)]
         IN  IF top.kind = "Object" THEN Some(top.key) ELSE None

\* variant of LineComma without the arm FocusPosition::Start => false
LineCommaAtStart(c) ==
    IF c.frames = <<>>
    THEN FALSE
    ELSE LET top == c.frames[Len(c.frames)]
         IN  IF top.kind = "Array"
             THEN top.index # ArrayLen(top.json) - 1
             ELSE Len(top.iterator) # 0

\* the comma of current_line
LineComma(c) ==
    IF c.focus_position = "Start" \/ c.frames = <<>>
    THEN FALSE
    ELSE LET top == c.frames[Len(c.frames)]
         IN  IF top.kind = "Array"
             THEN top.index # ArrayLen(top.json) - 1
             ELSE Len(top.iterator) # 0

\* the width of Line.indent: u8
IndentModulus == 256

\* frames.len() as u8
AsU8(n) == n % IndentModulus

\* Cursor::current_line
current_line(c, fds) ==
    MkLine(ContentTag(c.focus, c.focus_position),
           IF IsContainer(c.focus) THEN "" ELSE c.focus.value,
           LineKey(c),
           strip_position(to_path(c)) \in fds,
           LineComma(c),
           AsU8(Len(c.frames)))

\* what an iterator of Lines yields until it ends or panics
Yield(ret, ls) == [ret |-> ret, lines |-> ls]

\* the closure of lines_from: advance, and if it succeeded yield the current line
RECURSIVE LinesRest(_, _, _)
LinesRest(js, c, fds) ==
    LET r == advance(js, c, fds)
    IN  CASE r.ret = "Panic" -> Yield("Panic", <<>>)
          [] r.ret = "None" -> Yield("Some", <<>>)
          [] OTHER ->
                LET rest == LinesRest(js, r.cursor, fds)
                IN  Yield(rest.ret, <<current_line(r.cursor, fds)>> \o rest.lines)

\* variant of lines_from without std::iter::once(first_line)
lines_from_rest_only(js, c, fds) == LinesRest(js, c, fds)

\* Cursor::lines_from, collected
lines_from(js, c, fds) ==
    LET first_line == current_line(c, fds)
        rest == LinesRest(js, c, fds)
    IN  Yield(rest.ret, <<first_line>> \o rest.lines)

\* Line::render(is_cursor): the line and whether it is drawn as the cursor's
Rendered(line, is_cursor) == [line |-> line, is_cursor |-> is_cursor]

\* Some(&self) == cursor
IsCursor(c, cursor) == cursor # None /\ CursorEq(c, cursor[1])

\* the loop of render_lines with n rounds left
RECURSIVE RenderRest(_, _, _, _, _)
RenderRest(js, c, cursor, fds, n) ==
    IF n = 0
    THEN Yield("Some", <<>>)
    ELSE LET r == advance(js, c, fds)
         IN  CASE r.ret = "None" -> Yield("Some", <<>>)
               [] r.ret = "Panic" -> Yield("Panic", <<>>)
               [] OTHER ->
                    LET rest == RenderRest(js, r.cursor, cursor, fds, n - 1)
                    IN  Yield(rest.ret,
                              <<Rendered(current_line(r.cursor, fds), IsCursor(r.cursor, cursor))>>
                              \o rest.lines)

\* Cursor::render_lines
render_lines(js, c, cursor, fds, line_limit) ==
    LET rest == RenderRest(js, c, cursor, fds, line_limit)
    IN  Yield(rest.ret,
              <<Rendered(current_line(c, fds), IsCursor(c, cursor))>> \o rest.lines)

----------------------------------------------------------------------------
(* The reference rendering of the tests: testing::json_to_lines, with the  *)
(* container sizes stripped as tests::strip_container_sizes does.          *)

RECURSIVE FlattenValue(_, _, _, _), FlattenChildren(_, _, _)

\* the lines of the children of a container from the i-th on, one level deeper
FlattenChildren(json, i, indent) ==
    LET n == IF json.kind = "Array" THEN Len(json.elems) ELSE Len(json.entries)
    IN  IF i > n
        THEN <<>>
        ELSE (IF json.kind = "Array"
              THEN FlattenValue(json.elems[i], None, i < n, indent)
              ELSE FlattenValue(json.entries[i].value, Some(json.entries[i].key), i < n, indent))
             \o FlattenChildren(json, i + 1, indent)

\* a scalar is one line; a container is its open line, its children's lines, its close line
FlattenValue(json, key, comma, indent) ==
    IF IsContainer(json)
    THEN <<MkLine(ContentTag(json, "Start"), "", key, FALSE, FALSE, indent)>>
         \o FlattenChildren(json, 1, indent + 1)
         \o <<MkLine(ContentTag(json, "End"), "", None, FALSE, comma, indent)>>
    ELSE <<MkLine(ContentTag(json, "Value"), json.value, key, FALSE, comma, indent)>>

RECURSIVE FlattenFrom(_, _)
FlattenFrom(values, i) ==
    IF i > Len(values)
    THEN <<>>
    ELSE FlattenValue(values[i], None, FALSE, 0) \o FlattenFrom(values, i + 1)

json_to_lines(values) == FlattenFrom(values, 1)

----------------------------------------------------------------------------
(* The top-level sequences the model runs on.                              *)

\* the key of the i-th entry of a generated object
KeyNames == <<"a", "b", "c", "d", "e", "f", "g", "h">>

\* the scalars of the generated values
Leaves == {JVNumber("1")}

\* an object of the given values under the keys a, b, c, ...
Keyed(values) == JVObject([i \in 1..Len(values) |-> Entry(KeyNames[i], values[i])])

RECURSIVE TreesOf(_), ForestsOf(_)

\* the values of exactly k nodes
TreesOf(k) ==
    (IF k = 1 THEN Leaves ELSE {})
    \cup {JVArray(f) : f \in ForestsOf(k - 1)}
    \cup {Keyed(f) : f \in ForestsOf(k - 1)}

\* the sequences of values of exactly n nodes in all
ForestsOf(n) ==
    IF n = 0
    THEN {<<>>}
    ELSE UNION {{<<t>> \o f : t \in TreesOf(k), f \in ForestsOf(n - k)} : k \in 1..n}

\* [ {"a": 1, "b": [2, 3]} ]
Scenario ==
    <<JVObject(<<Entry("a", JVNumber("1")),
                 Entry("b", JVArray(<<JVNumber("2"), JVNumber("3")>>))>>)>>

\* the fold key of the array at key b of Scenario
ScenarioB == <<0, <<1>>>>

\* [ [true, {"k": ["s"], "e": {}}, null], 4 ]: every kind of value, four levels deep
Nested ==
    <<JVArray(<<JVBool("true"),
                JVObject(<<Entry("k", JVArray(<<JVString("s")>>)),
                           Entry("e", JVObject(<<>>))>>),
                JVNull>>),
      JVNumber("4")>>

RootSeqs == UNION {ForestsOf(n) : n \in 1..MaxNodes} \cup {Scenario, Nested}

RECURSIVE KeysUnder(_, _, _)
\* the fold keys of a value at (t, prefix) and of everything below it
KeysUnder(json, t, prefix) ==
    {<<t, prefix>>}
    \cup UNION {KeysUnder(json.elems[i], t, Append(prefix, i - 1)) : i \in 1..Len(json.elems)}
    \cup UNION {KeysUnder(json.entries[i].value, t, Append(prefix, i - 1)) :
                    i \in 1..Len(json.entries)}

\* the fold keys of all the nodes of the top-level values
AllKeys(js) == UNION {KeysUnder(js[t + 1], t, <<>>) : t \in 0..(Len(js) - 1)}

\* the value a fold key addresses
RECURSIVE ValueAt(_, _, _)
ValueAt(json, indices, i) ==
    IF i > Len(indices)
    THEN json
    ELSE IF json.kind = "Array"
         THEN ValueAt(json.elems[indices[i] + 1], indices, i + 1)
         ELSE ValueAt(json.entries[indices[i] + 1].value, indices, i + 1)

NodeAt(js, key) == ValueAt(js[key[1] + 1], key[2], 1)

\* the Paths of the positions of the top-level values
AllPaths(js) ==
    {MkPath(key[1], key[2], p) :
        key \in AllKeys(js), p \in {"Start", "Value", "End"}}

WellFormedPaths(js) ==
    {path \in AllPaths(js) :
        LET json == NodeAt(js, strip_position(path))
        IN  path.focus_position \in {starting(json), ending(json)}}

\* the fold sets of at most MaxFolds keys
FoldSets(js) == {fs \in SUBSET AllKeys(js) : Cardinality(fs) <= MaxFolds}

----------------------------------------------------------------------------
(* The state machine: a caller holding one Cursor and a fold set.          *)

Call(op, ret, before, r) == [op |-> op, ret |-> ret, before |-> before, route |-> r]

\* the call before the last, and the last
Remember(h, call) == IF h = <<>> THEN <<call>> ELSE <<h[Len(h)], call>>

Last == hist[Len(hist)]
Earlier == hist[1]

\* a panic ends the program
Panicked == hist # <<>> /\ Last.ret = "Panic"

SetCursor(c) ==
    /\ top_index' = c.top_index
    /\ frames' = c.frames
    /\ focus' = c.focus
    /\ focus_position' = c.focus_position

\* no call but steps of the cursor has been made
Idle == [op |-> "none"]

Init ==
    /\ jsons \in RootSeqs
    /\ folds \in FoldSets(jsons)
    /\ hist = <<>>
    /\ twin = None
    /\ probe = Idle
    /\ \/ /\ route = "advances"
          /\ \E c \in {new(jsons)[1]} :
                /\ top_index = c.top_index
                /\ frames = c.frames
                /\ focus = c.focus
                /\ focus_position = c.focus_position
                /\ lines = <<current_line(c, folds)>>
                /\ walked = <<to_path(c)>>
       \/ /\ route = "path"
          /\ \E path \in WellFormedPaths(jsons) :
                \E c \in {from_path(jsons, path).cursor} :
                    /\ top_index = c.top_index
                    /\ frames = c.frames
                    /\ focus = c.focus
                    /\ focus_position = c.focus_position
                    /\ lines = <<>>
                    /\ walked = <<>>

Advance ==
    /\ ~Panicked
    /\ LET r == advance(jsons, Self, folds)
       IN  /\ SetCursor(r.cursor)
           /\ hist' = Remember(hist, Call("advance", r.ret, Self, route))
           /\ lines' = IF route = "advances" /\ r.ret = "Some"
                       THEN Append(lines, current_line(r.cursor, folds))
                       ELSE lines
           /\ walked' = IF route = "advances" /\ r.ret = "Some"
                        THEN Append(walked, to_path(r.cursor))
                        ELSE walked
    /\ UNCHANGED <<jsons, folds, route, twin, probe>>

Regress ==
    /\ ~Panicked
    /\ LET r == regress(jsons, Self, folds)
       IN  /\ SetCursor(r.cursor)
           /\ hist' = Remember(hist, Call("regress", r.ret, Self, route))
           /\ route' = IF route = "advances" /\ r.ret = "Some" THEN "steps" ELSE route
           /\ lines' = IF r.ret = "Some" THEN <<>> ELSE lines
           /\ walked' = IF r.ret = "Some" THEN <<>> ELSE walked
    /\ UNCHANGED <<jsons, folds, twin, probe>>

Clone ==
    /\ ~Panicked
    /\ LET r == clone(jsons, Self)
       IN  /\ SetCursor(r.cursor)
           /\ hist' = Remember(hist, Call("clone", r.ret, Self, route))
    /\ UNCHANGED <<jsons, folds, route, lines, walked, twin, probe>>

Next == Advance \/ Regress \/ Clone

Spec == Init /\ [][Next]_vars

----------------------------------------------------------------------------
(* Properties                                                              *)

\* the fold key of a cursor
KeyOf(c) == strip_position(to_path(c))

\* the number of children of a value
ChildCount(json) ==
    IF json.kind = "Array" THEN Len(json.elems) ELSE Len(json.entries)

Called(op) == hist # <<>> /\ Last.op = op
CalledTwo(first, second) ==
    Len(hist) > 1 /\ Earlier.op = first /\ Last.op = second

\* the walk from Cursor::new by advance alone has run off the end
WalkDone == route = "advances" /\ Called("advance") /\ Last.ret = "None"

\* C1: with no folds, the lines rendered from Cursor::new by advance until it
\* returns None are the reference flattening of the top-level values (content,
\* key, comma and indent of every line; container sizes aside).
LineSequenceEquivalence ==
    (WalkDone /\ folds = {}) => lines = json_to_lines(jsons)

LineSequenceWitness ==
    WalkDone /\ folds = {} /\ jsons = Nested /\ Len(lines) > Len(jsons)

\* C2: with no folds, from a cursor reached from Cursor::new by advances, a
\* successful advance followed by regress gives back an equal cursor.
AdvanceRegressSymmetry ==
    (/\ CalledTwo("advance", "regress")
     /\ Earlier.ret = "Some"
     /\ Earlier.route = "advances"
     /\ folds = {})
    => (Last.ret = "Some" /\ CursorEq(Self, Earlier.before))

AdvanceRegressWitness ==
    /\ CalledTwo("advance", "regress")
    /\ Earlier.ret = "Some"
    /\ Earlier.route = "advances"
    /\ folds = {}
    /\ Last.ret = "Some"
    /\ Len(Last.before.frames) < Len(frames)
    /\ frames[Len(frames)].kind = "Object"
    /\ frames[Len(frames)].index > 0

\* C3: for a cursor reached from Cursor::new by advances, from_path of its
\* to_path over the same jsons is an equal cursor.
PathRoundTrip ==
    (Called("clone") /\ Last.route = "advances")
    => (Last.ret = "Some" /\ CursorEq(Self, Last.before))

PathRoundTripWitness ==
    /\ Called("clone")
    /\ Last.route = "advances"
    /\ Last.ret = "Some"
    /\ Len(Last.before.frames) > 1
    /\ Last.before.focus_position = "End"

\* C4: whenever advance succeeds, under any fold set, the Path after the step
\* is strictly greater than the Path before it, and the comparison does not panic.
AdvanceStrictlyIncreases ==
    (Called("advance") /\ Last.ret = "Some")
    => cmp(to_path(Self), to_path(Last.before)) = "Greater"

AdvanceIncreasesWitness ==
    /\ Called("advance")
    /\ Last.ret = "Some"
    /\ folds # {}
    /\ Len(frames) < Len(Last.before.frames)
    /\ cmp(to_path(Self), to_path(Last.before)) = "Greater"

\* advance was called on the Start of a folded container that has a child
FoldedStartAdvanced ==
    /\ Called("advance")
    /\ Last.before.focus_position = "Start"
    /\ IsContainer(Last.before.focus)
    /\ ChildCount(Last.before.focus) > 0
    /\ KeyOf(Last.before) \in folds

AfterInParent(c) ==
    LET indices == to_path(c).frames
        depth == Len(indices)
        above == SubSeq(indices, 1, depth - 1)
        parent == NodeAt(jsons, <<c.top_index, above>>)
        index == indices[depth]
    IN  IF index + 1 < ChildCount(parent)
        THEN MkPath(c.top_index, Append(above, index + 1),
                    starting(NodeAt(jsons, <<c.top_index, Append(above, index + 1)>>)))
        ELSE MkPath(c.top_index, above, "End")

Shown(tag, key, folded) == [tag |-> tag, key |-> key, folded |-> folded]
ShownLines == [i \in 1..Len(lines) |-> Shown(lines[i].content.tag, lines[i].key, lines[i].folded)]
TagsOf(shown) == [i \in 1..Len(shown) |-> shown[i].tag]

ScenarioUnfoldedLines ==
    <<Shown("ObjectStart", None, FALSE),
      Shown("Number", Some("a"), FALSE),
      Shown("ArrayStart", Some("b"), FALSE),
      Shown("Number", None, FALSE),
      Shown("Number", None, FALSE),
      Shown("ArrayEnd", None, FALSE),
      Shown("ObjectEnd", None, FALSE)>>

\* the five lines C6 states for the folded walk
ScenarioFoldedTagsClaimed ==
    <<"ObjectStart", "Number", "ArrayStart", "ArrayEnd", "ObjectEnd">>

\* the lines the folded walk renders
ScenarioFoldedLines ==
    <<Shown("ObjectStart", None, FALSE),
      Shown("Number", Some("a"), FALSE),
      Shown("ArrayStart", Some("b"), TRUE),
      Shown("ObjectEnd", None, FALSE)>>

ScenarioWalked == WalkDone /\ jsons = Scenario

AtFirst(c) ==
    c.top_index = 0 /\ c.frames = <<>> /\ c.focus_position \in {"Start", "Value"}

\* the last position: last top-level value, no frames, End or Value
AtLast(c) ==
    c.top_index = Len(jsons) - 1 /\ c.frames = <<>> /\ c.focus_position \in {"End", "Value"}

\* C7: regress from the first position and advance from the last position
\* return None and leave every field of the cursor as it was, however often
\* the failing call is repeated.
BoundaryCallsChangeNothing ==
    /\ (Called("regress") /\ AtFirst(Last.before))
       => (Last.ret = "None" /\ Self = Last.before)
    /\ (Called("advance") /\ AtLast(Last.before))
       => (Last.ret = "None" /\ Self = Last.before)

BoundaryWitness ==
    /\ CalledTwo("advance", "advance")
    /\ AtLast(Earlier.before)
    /\ AtLast(Last.before)
    /\ Last.ret = "None"
    /\ focus_position = "End"
    /\ Len(jsons) > 1

\* where advance has nowhere to go
AdvanceBoundary(c) ==
    /\ c.frames = <<>>
    /\ c.top_index = Len(jsons) - 1
    /\ ~(c.focus_position = "Start" /\ KeyOf(c) \notin folds)

\* where regress has nowhere to go
RegressBoundary(c) ==
    c.frames = <<>> /\ c.top_index = 0 /\ c.focus_position # "End"

\* C8: advance returns None only on the last top-level value with no frames and
\* not on an unfolded Start, regress only on the first with no frames and not
\* on End; every other call succeeds and moves the cursor to another position.
FailOnlyAtBoundary ==
    /\ Called("advance") =>
          IF AdvanceBoundary(Last.before)
          THEN Last.ret = "None"
          ELSE Last.ret = "Some" /\ to_path(Self) # to_path(Last.before)
    /\ Called("regress") =>
          IF RegressBoundary(Last.before)
          THEN Last.ret = "None"
          ELSE Last.ret = "Some" /\ to_path(Self) # to_path(Last.before)

FailOnlyAtBoundaryWitness ==
    /\ CalledTwo("regress", "advance")
    /\ Earlier.ret = "None"
    /\ Last.ret = "Some"
    /\ Len(jsons) > 1
    /\ folds # {}
    /\ top_index > 0

\* C9: with no folds, from a cursor reached from Cursor::new by advances that
\* is not the first position, regress followed by advance gives back an equal cursor.
RegressAdvanceSymmetry ==
    (/\ CalledTwo("regress", "advance")
     /\ Earlier.route = "advances"
     /\ ~AtFirst(Earlier.before)
     /\ folds = {})
    => (Earlier.ret = "Some" /\ Last.ret = "Some" /\ CursorEq(Self, Earlier.before))

RegressAdvanceWitness ==
    /\ CalledTwo("regress", "advance")
    /\ Earlier.route = "advances"
    /\ Earlier.ret = "Some"
    /\ Earlier.before.focus_position = "End"
    /\ ChildCount(Earlier.before.focus) > 1
    /\ folds = {}
    /\ Last.ret = "Some"
    /\ focus_position = "End"

\* C10: whenever regress succeeds, under any fold set, the Path after the step
\* is strictly smaller than the Path before it; so it is when the landing is
\* moved to Start by a fold and when the step is from End to Start of an
\* empty container.
RegressStrictlyDecreases ==
    (Called("regress") /\ Last.ret = "Some")
    => cmp(to_path(Self), to_path(Last.before)) = "Less"

\* a regress whose landing the fold rule moved from End to Start
RegressDecreasesWitness ==
    /\ Called("regress")
    /\ Last.ret = "Some"
    /\ KeyOf(Self) \in folds
    /\ IsContainer(focus)
    /\ ChildCount(focus) > 0
    /\ focus_position = "Start"
    /\ KeyOf(Last.before) # KeyOf(Self)
    /\ Len(frames) > Len(Last.before.frames)
    /\ cmp(to_path(Self), to_path(Last.before)) = "Less"

\* the cursor was made by Cursor::new and moved by advance and regress alone
FromNew == route \in {"advances", "steps"}

\* every key of the fold set is the path of an array or object
FoldsOnContainers == \A key \in folds : IsContainer(NodeAt(jsons, key))

\* C11: in every cursor reached from Cursor::new by advance and regress, under
\* a fold set whose keys are paths of containers, focus_position is Value
\* exactly when the focus is a scalar (so Start or End on an array or object).
SubPositionInvariant ==
    (FromNew /\ FoldsOnContainers)
    => (focus_position = "Value" <=> ~IsContainer(focus))

\* a regress has landed on a scalar, and another on a folded container
SubPositionWitness ==
    /\ FromNew
    /\ FoldsOnContainers
    /\ folds # {}
    /\ CalledTwo("regress", "regress")
    /\ Earlier.ret = "Some"
    /\ Last.ret = "Some"
    /\ ~IsContainer(Last.before.focus)
    /\ Last.before.focus_position = "Value"
    /\ KeyOf(Self) \in folds
    /\ focus_position = "Start"

\* the child of a container at an index counted from 0
ChildAt(json, index) ==
    IF json.kind = "Array" THEN json.elems[index + 1] ELSE json.entries[index + 1].value

\* a frame holds a container of its own kind, an index of one of its children
\* and, for an object, the key at that index
FrameFits(frame) ==
    /\ frame.json.kind = frame.kind
    /\ frame.index >= 0
    /\ frame.index < ChildCount(frame.json)
    /\ (frame.kind = "Object" => frame.key = frame.json.entries[frame.index + 1].key)

\* C12: in every cursor reached from Cursor::new by advance and regress, frame 0
\* holds jsons[top_index], frame k+1 holds the child at frame k's index of frame
\* k's container, the focus is the child at the top frame's index (jsons[top_index]
\* with no frames), and an object frame's key is the key at its index.
FrameStackConsistent ==
    FromNew =>
        /\ \A k \in 1..Len(frames) : FrameFits(frames[k])
        /\ \A k \in 1..Len(frames) :
              frames[k].json = IF k = 1
                               THEN jsons[top_index + 1]
                               ELSE ChildAt(frames[k - 1].json, frames[k - 1].index)
        /\ focus = IF frames = <<>>
                   THEN jsons[top_index + 1]
                   ELSE ChildAt(frames[Len(frames)].json, frames[Len(frames)].index)

FrameStackWitness ==
    /\ route = "steps"
    /\ Called("advance")
    /\ Last.ret = "Some"
    /\ Len(frames) > 1
    /\ frames[Len(frames)].kind = "Object"
    /\ frames[Len(frames)].index > 0
    /\ frames[1].index > 0

\* C13: on the walk from Cursor::new by advance with no folds, the Path of one
\* position is Less than the Path of another exactly when it is visited first
\* (Greater when visited later, Equal to itself), so Path::cmp orders these
\* Paths as the traversal does: antisymmetric and transitive.
PathOrderIsWalkOrder ==
    (route = "advances" /\ folds = {}) =>
        \A i, j \in 1..Len(walked) :
            cmp(walked[i], walked[j]) =
                IF i < j THEN "Less" ELSE IF i > j THEN "Greater" ELSE "Equal"

PathOrderWitness ==
    /\ WalkDone
    /\ folds = {}
    /\ jsons = Nested
    /\ Len(walked) = Len(lines)
    /\ Len(walked) > Len(jsons)
    /\ cmp(walked[1], walked[Len(walked)]) = "Less"

----------------------------------------------------------------------------
(* Functions called on their own: the arguments are drawn in the initial   *)
(* state, the one action makes the call and keeps what it returned in      *)
(* probe.  The caller's cursor plays no part and stays parked.             *)

Positions == {"Start", "Value", "End"}

IndexSeqs(n) == UNION {[1..k -> 0..MaxIndex] : k \in 0..n}

\* Paths of any shape, whatever roots they came from
ArbPaths ==
    {MkPath(t, fs, p) : t \in 0..MaxIndex, fs \in IndexSeqs(MaxPathDepth), p \in Positions}

Parked ==
    /\ top_index = 0
    /\ frames = <<>>
    /\ focus = JVNull
    /\ focus_position = "Value"
    /\ folds = {}
    /\ hist = <<>>
    /\ lines = <<>>
    /\ walked = <<>>
    /\ twin = None

InitCmp ==
    /\ Parked
    /\ jsons = <<>>
    /\ route = "cmp"
    /\ \E self \in ArbPaths, other \in ArbPaths :
          probe = [op |-> "paths", self |-> self, other |-> other]

\* self.cmp(other) on two Paths
Compare ==
    /\ probe.op = "paths"
    /\ probe' = [op |-> "cmp", self |-> probe.self, other |-> probe.other,
                 ret |-> cmp(probe.self, probe.other)]
    /\ UNCHANGED <<jsons, top_index, frames, focus, focus_position, folds, hist,
                   route, lines, walked, twin>>

NextCmp == Compare

SpecCmp == InitCmp /\ [][NextCmp]_vars

StrictPrefix(short, long) ==
    /\ Len(short) < Len(long)
    /\ \A i \in 1..Len(short) : short[i] = long[i]

\* the shorter of two Paths on one root is at Value and its indices begin the other's
ValueAbove(short, long) ==
    /\ short.top_index = long.top_index
    /\ StrictPrefix(short.frames, long.frames)
    /\ short.focus_position = "Value"

\* C14: comparing two Paths panics exactly when their root indices are equal,
\* the frame indices of one are a strict prefix of the other's and the
\* shorter Path is at Value; every other pair compares Less, Equal or Greater.
CmpPanicsExactly ==
    probe.op = "cmp" =>
        IF ValueAbove(probe.self, probe.other) \/ ValueAbove(probe.other, probe.self)
        THEN probe.ret = "Panic"
        ELSE probe.ret \in {"Less", "Equal", "Greater"}

CmpPanicsWitness ==
    /\ probe.op = "cmp"
    /\ probe.ret = "Panic"
    /\ ValueAbove(probe.other, probe.self)
    /\ probe.other.frames # <<>>
    /\ probe.self.focus_position # "Value"

InitFromPath ==
    /\ Parked
    /\ jsons \in RootSeqs
    /\ route = "from_path"
    /\ \E path \in ArbPaths : probe = [op |-> "path", path |-> path]

\* Cursor::from_path(jsons, &path) on a Path of any shape
Rehydrate ==
    /\ probe.op = "path"
    /\ LET r == from_path(jsons, probe.path)
       IN  probe' = [op |-> "from_path", path |-> probe.path,
                     ret |-> r.ret, cursor |-> r.cursor]
    /\ UNCHANGED <<jsons, top_index, frames, focus, focus_position, folds, hist,
                   route, lines, walked, twin>>

NextFromPath == Rehydrate

SpecFromPath == InitFromPath /\ [][NextFromPath]_vars

\* every index of the sequence has a child in the value reached so far
RECURSIVE IndicesFit(_, _)
IndicesFit(json, indices) ==
    \/ indices = <<>>
    \/ /\ IsContainer(json)
       /\ Head(indices) < ChildCount(json)
       /\ IndicesFit(ChildAt(json, Head(indices)), Tail(indices))

\* a frame index is out of range, or a scalar is reached with indices left
IndexWithoutChild(js, path) ==
    /\ path.top_index < Len(js)
    /\ ~IndicesFit(js[path.top_index + 1], path.frames)

RootWithoutValue(js, path) == path.top_index >= Len(js)

Rehydrated == probe.op = "from_path" /\ probe.ret = "Some"

\* C15 as stated: from_path returns no Cursor when an index has no child,
\* and otherwise returns a cursor that has the Path's coordinates.
FromPathFailsOnlyOnIndex ==
    probe.op = "from_path" =>
        IF IndexWithoutChild(jsons, probe.path)
        THEN probe.ret # "Some"
        ELSE Rehydrated /\ to_path(probe.cursor) = probe.path

\* C15: from_path returns no Cursor when the Path's root index is past the
\* roots, when a frame index is out of range for the container reached so
\* far, or when a scalar is reached with frame indices left; otherwise it
\* returns a cursor whose top index, frame indices and sub-position are the
\* Path's.
FromPathFailsExactly ==
    probe.op = "from_path" =>
        IF RootWithoutValue(jsons, probe.path) \/ IndexWithoutChild(jsons, probe.path)
        THEN probe.ret = "Panic"
        ELSE Rehydrated /\ to_path(probe.cursor) = probe.path

FromPathFailsWitness ==
    /\ probe.op = "from_path"
    /\ probe.ret = "Panic"
    /\ RootWithoutValue(jsons, probe.path)
    /\ probe.path.frames = <<>>

\* a cursor over old roots, at a position a walk with no folds visits
InitReplay ==
    /\ jsons \in RootSeqs
    /\ folds = {}
    /\ hist = <<>>
    /\ lines = <<>>
    /\ walked = <<>>
    /\ twin = None
    /\ probe = Idle
    /\ route = "replay"
    /\ \E path \in WellFormedPaths(jsons) :
          \E c \in {from_path(jsons, path).cursor} :
              /\ top_index = c.top_index
              /\ frames = c.frames
              /\ focus = c.focus
              /\ focus_position = c.focus_position

\* Cursor::from_path(new roots, &cursor.to_path()): the Path of a cursor over
\* the old roots replayed on roots that replace them
Replay ==
    /\ probe.op = "none"
    /\ \E roots \in RootSeqs :
          LET path == to_path(Self)
              r == from_path(roots, path)
          IN  /\ probe' = [op |-> "replay", old |-> jsons, roots |-> roots,
                           path |-> path, ret |-> r.ret]
              /\ IF r.ret = "Some"
                 THEN jsons' = roots /\ SetCursor(r.cursor)
                 ELSE UNCHANGED <<jsons, top_index, frames, focus, focus_position>>
    /\ UNCHANGED <<folds, hist, route, lines, walked, twin>>

NextReplay == Replay

SpecReplay == InitReplay /\ [][NextReplay]_vars

\* the node the Path addresses exists, and is a scalar where the Path is at
\* Start or End or a container where it is at Value
KindDisagrees(js, path) ==
    /\ ~RootWithoutValue(js, path)
    /\ ~IndexWithoutChild(js, path)
    /\ (path.focus_position = "Value") = IsContainer(NodeAt(js, strip_position(path)))

\* C16: a Path derived from a cursor over old roots and replayed on new roots
\* makes from_path panic when the root index is gone, a child is missing or
\* the addressed node's kind no longer agrees with the Path's sub-position;
\* a Cursor that from_path returns has Value exactly on a scalar.
ReplayFailsOnDivergence ==
    probe.op = "replay" =>
        /\ (\/ RootWithoutValue(probe.roots, probe.path)
            \/ IndexWithoutChild(probe.roots, probe.path)
            \/ KindDisagrees(probe.roots, probe.path)) => probe.ret = "Panic"
        /\ probe.ret = "Some" => (focus_position = "Value" <=> ~IsContainer(focus))

InitNew ==
    /\ Parked
    /\ jsons \in RootSeqs \cup {<<>>}
    /\ route = "new"
    /\ probe = Idle

\* Cursor::new(jsons)
Construct ==
    /\ probe.op = "none"
    /\ LET made == new(jsons)
       IN  /\ probe' = [op |-> "new", ret |-> IF made = None THEN "None" ELSE "Some"]
           /\ IF made = None
              THEN UNCHANGED <<top_index, frames, focus, focus_position>>
              ELSE SetCursor(made[1])
    /\ UNCHANGED <<jsons, folds, hist, route, lines, walked, twin>>

NextNew == Construct

SpecNew == InitNew /\ [][NextNew]_vars

\* C17: Cursor::new returns no cursor exactly when there are no roots;
\* otherwise the cursor is at top index 0 with no frames, focused on the first
\* root, at Start when that root is a container and at Value when it is a
\* scalar.
NewIsFirstPosition ==
    probe.op = "new" =>
        IF jsons = <<>>
        THEN probe.ret = "None"
        ELSE /\ probe.ret = "Some"
             /\ top_index = 0
             /\ frames = <<>>
             /\ focus = jsons[1]
             /\ focus_position = IF IsContainer(jsons[1]) THEN "Start" ELSE "Value"

NewWitness ==
    /\ probe.op = "new"
    /\ probe.ret = "Some"
    /\ Len(jsons) > 1
    /\ IsContainer(jsons[1])
    /\ ChildCount(jsons[1]) > 0
    /\ focus_position = "Start"

----------------------------------------------------------------------------
(* Search.  App::search is in main.rs; Cursor::search and search_back are  *)
(* modelled from their description: step by advance (regress) from the     *)
(* cursor, not counting it, and stop at the first line that matches.  The  *)
(* call passes no fold set, so the steps see none.                         *)

\* what the user may type: a scalar's text, a key, a bracket, a word that is nowhere
Patterns == {"1", "a", "b", "[", "}", "zzz"}

\* the pattern occurs in the text of the line
Matches(pattern, line) ==
    \/ line.key = Some(pattern)
    \/ line.content.value = pattern
    \/ pattern = "[" /\ line.content.tag = "ArrayStart"
    \/ pattern = "}" /\ line.content.tag = "ObjectEnd"

\* Cursor::search and Cursor::search_back, on a cursor they own
RECURSIVE SearchLoop(_, _, _, _)
SearchLoop(js, c, pattern, reverse) ==
    LET r == IF reverse THEN regress(js, c, {}) ELSE advance(js, c, {})
    IN  IF r.ret # "Some"
        THEN r
        ELSE IF Matches(pattern, current_line(r.cursor, {}))
             THEN r
             ELSE SearchLoop(js, r.cursor, pattern, reverse)

\* variant of AppSearch that takes the searching cursor whatever it returned
AppSearchAlwaysMoves(js, c, pattern, reverse) ==
    LET copy == clone(js, c)
    IN  IF copy.ret # "Some"
        THEN Ret("Panic", c)
        ELSE SearchLoop(js, copy.cursor, pattern, reverse)

\* App::search: the hit of a search from a clone of the view's cursor
\* replaces the cursor; with no hit the cursor stays
AppSearch(js, c, pattern, reverse) ==
    LET copy == clone(js, c)
    IN  IF copy.ret # "Some"
        THEN Ret("Panic", c)
        ELSE LET search_hit == SearchLoop(js, copy.cursor, pattern, reverse)
             IN  IF search_hit.ret = "Some"
                 THEN search_hit
                 ELSE Ret(search_hit.ret, c)

InitSearch ==
    /\ jsons \in RootSeqs
    /\ folds = {}
    /\ hist = <<>>
    /\ lines = <<>>
    /\ walked = <<>>
    /\ twin = None
    /\ probe = Idle
    /\ route = "search"
    /\ \E path \in WellFormedPaths(jsons) :
          \E c \in {from_path(jsons, path).cursor} :
              /\ top_index = c.top_index
              /\ frames = c.frames
              /\ focus = c.focus
              /\ focus_position = c.focus_position

Searched(pattern, reverse) ==
    /\ ~(probe.op = "search" /\ probe.ret = "Panic")
    /\ LET r == AppSearch(jsons, Self, pattern, reverse)
       IN  /\ SetCursor(r.cursor)
           /\ probe' = [op |-> "search", pattern |-> pattern, reverse |-> reverse,
                        ret |-> r.ret, before |-> Self]
    /\ UNCHANGED <<jsons, folds, hist, route, lines, walked, twin>>

\* Key::Char('n')
SearchNext == \E pattern \in Patterns : Searched(pattern, FALSE)

\* Key::Char('N')
SearchPrevious == \E pattern \in Patterns : Searched(pattern, TRUE)

NextSearch == SearchNext \/ SearchPrevious

SpecSearch == InitSearch /\ [][NextSearch]_vars

\* the place of a position in traversal order, counted from 1
LineIndex(js, path) ==
    Cardinality({q \in WellFormedPaths(js) : cmp(q, path) = "Less"}) + 1

\* the places after (before) the i-th whose line matches
HitsFrom(js, i, pattern, reverse) ==
    LET all == json_to_lines(js)
    IN  {k \in 1..Len(all) :
            /\ IF reverse THEN k < i ELSE k > i
            /\ Matches(pattern, all[k])}

Nearest(hits, reverse) ==
    CHOOSE k \in hits : \A other \in hits : IF reverse THEN other <= k ELSE other >= k

\* C18: a search from position p leaves the cursor on the nearest matching
\* line strictly after p (strictly before p for search_back); when no line
\* on that side matches it returns no result, does not wrap around, and the
\* caller's cursor stays where it was.
SearchFindsNearest ==
    probe.op = "search" =>
        LET hits == HitsFrom(jsons, LineIndex(jsons, to_path(probe.before)),
                             probe.pattern, probe.reverse)
        IN  IF hits = {}
            THEN probe.ret = "None" /\ Self = probe.before
            ELSE /\ probe.ret = "Some"
                 /\ to_path(Self) \in WellFormedPaths(jsons)
                 /\ LineIndex(jsons, to_path(Self)) = Nearest(hits, probe.reverse)
                 /\ Self # probe.before
                 /\ Matches(probe.pattern, current_line(Self, {}))

\* a hit that is neither the next line nor the only match, then no hit past the last match
SearchWitness ==
    /\ probe.op = "search"
    /\ probe.ret = "None"
    /\ ~probe.reverse
    /\ Matches(probe.pattern, current_line(Self, {}))
    /\ Len(frames) > 1
    /\ HitsFrom(jsons, LineIndex(jsons, to_path(Self)), probe.pattern, TRUE) # {}

----------------------------------------------------------------------------
(* A cursor and its clone, stepped together.                               *)

InitTwin ==
    /\ jsons \in RootSeqs
    /\ folds \in FoldSets(jsons)
    /\ hist = <<>>
    /\ lines = <<>>
    /\ walked = <<>>
    /\ twin = None
    /\ probe = Idle
    /\ route = "twin"
    /\ \E c \in {new(jsons)[1]} :
          /\ top_index = c.top_index
          /\ frames = c.frames
          /\ focus = c.focus
          /\ focus_position = c.focus_position

TwinPanicked == probe.op # "none" /\ "Panic" \in {probe.ret, probe.twin_ret}

\* let twin = cursor.clone()
Fork ==
    /\ twin = None
    /\ ~TwinPanicked
    /\ LET r == clone(jsons, Self)
       IN  /\ twin' = Some(r.cursor)
           /\ probe' = [op |-> "clone", ret |-> r.ret, twin_ret |-> r.ret]
    /\ UNCHANGED <<jsons, top_index, frames, focus, focus_position, folds, hist,
                   route, lines, walked>>

\* the same step on the cursor and, once it exists, on its clone
StepBoth(op, r, t) ==
    /\ SetCursor(r.cursor)
    /\ twin' = IF twin = None THEN None ELSE Some(t.cursor)
    /\ probe' = [op |-> op, ret |-> r.ret,
                 twin_ret |-> IF twin = None THEN r.ret ELSE t.ret]
    /\ UNCHANGED <<jsons, folds, hist, route, lines, walked>>

\* cursor.advance(&folds); twin.advance(&folds)
AdvanceBoth ==
    /\ ~TwinPanicked
    /\ StepBoth("advance", advance(jsons, Self, folds),
                IF twin = None THEN Ret("None", Self) ELSE advance(jsons, twin[1], folds))

\* cursor.regress(&folds); twin.regress(&folds)
RegressBoth ==
    /\ ~TwinPanicked
    /\ StepBoth("regress", regress(jsons, Self, folds),
                IF twin = None THEN Ret("None", Self) ELSE regress(jsons, twin[1], folds))

NextTwin == Fork \/ AdvanceBoth \/ RegressBoth

SpecTwin == InitTwin /\ [][NextTwin]_vars

\* C19: a clone of a reachable cursor is equal to it, and after any steps
\* made on both under any fold set the two have returned the same results,
\* are equal and render the same line, the trailing comma included.
CloneBehavesAlike ==
    twin # None =>
        /\ probe.ret = probe.twin_ret
        /\ probe.op = "clone" => probe.ret = "Some"
        /\ CursorEq(Self, twin[1])
        /\ current_line(Self, folds) = current_line(twin[1], folds)

\* the clone was made inside an object before its last entry, and both stepped back
CloneWitness ==
    /\ twin # None
    /\ probe.op = "regress"
    /\ probe.ret = "Some"
    /\ folds # {}
    /\ frames # <<>>
    /\ frames[Len(frames)].kind = "Object"
    /\ current_line(twin[1], folds).comma

----------------------------------------------------------------------------
(* The walk back from the end.  Cursor::new_end is called in main.rs       *)
(* (Key::End) and is modelled from its description: the last position of   *)
(* the last root.                                                          *)

\* Cursor::new_end
new_end(js) ==
    IF js = <<>>
    THEN None
    ELSE LET last == js[Len(js)]
         IN  Some(MkCursor(Len(js) - 1, <<>>, last, ending(last)))

InitBack ==
    /\ jsons \in RootSeqs
    /\ folds = {}
    /\ hist = <<>>
    /\ twin = None
    /\ probe = Idle
    /\ route = "back"
    /\ \E c \in {new_end(jsons)[1]} :
          /\ top_index = c.top_index
          /\ frames = c.frames
          /\ focus = c.focus
          /\ focus_position = c.focus_position
          /\ lines = <<current_line(c, folds)>>
          /\ walked = <<to_path(c)>>

\* cursor.regress(&folds), the position it reaches kept
RegressBack ==
    /\ ~Panicked
    /\ LET r == regress(jsons, Self, folds)
       IN  /\ SetCursor(r.cursor)
           /\ hist' = Remember(hist, Call("regress", r.ret, Self, route))
           /\ lines' = IF r.ret = "Some"
                       THEN Append(lines, current_line(r.cursor, folds))
                       ELSE lines
           /\ walked' = IF r.ret = "Some"
                        THEN Append(walked, to_path(r.cursor))
                        ELSE walked
    /\ UNCHANGED <<jsons, folds, route, twin, probe>>

NextBack == RegressBack

SpecBack == InitBack /\ [][NextBack]_vars

\* the cursors of the walk by advance from c until advance returns None
RECURSIVE WalkFrom(_, _, _)
WalkFrom(js, c, fds) ==
    LET r == advance(js, c, fds)
    IN  IF r.ret = "Some" THEN <<c>> \o WalkFrom(js, r.cursor, fds) ELSE <<c>>

BackDone == route = "back" /\ Called("regress") /\ Last.ret = "None"

\* C21: with no folds, regress from new_end until it returns None visits the
\* positions of the walk by advance from new in reverse order, line for
\* line, and ends on the position of new.
BackwardMirrorsForward ==
    route = "back" =>
        LET forward == WalkFrom(jsons, new(jsons)[1], {})
            n == Len(forward)
        IN  /\ Len(walked) <= n
            /\ \A i \in 1..Len(walked) :
                  /\ walked[i] = to_path(forward[n - i + 1])
                  /\ lines[i] = current_line(forward[n - i + 1], {})
            /\ CursorEq(Self, forward[n - Len(walked) + 1])
            /\ BackDone => (Len(walked) = n /\ CursorEq(Self, new(jsons)[1]))

BackwardWitness ==
    /\ BackDone
    /\ jsons = Nested
    /\ Len(walked) > 10
    /\ walked[Len(walked)] = to_path(new(jsons)[1])
    /\ walked[1].focus_position = "Value"

----------------------------------------------------------------------------
(* Properties of the line of every reachable cursor.                       *)

\* the focus is a child of a container and is not its last child
HasFollowingSibling(c) ==
    /\ c.frames # <<>>
    /\ LET top == c.frames[Len(c.frames)]
       IN  top.index + 1 < ChildCount(top.json)

\* C22: the comma of current_line is true exactly when the sub-position is
\* not Start, the cursor has a parent frame and the focus is not the last
\* child of that parent; so it is false at root level and at every Start.
CommaIffFollowingSibling ==
    current_line(Self, folds).comma
        <=> (focus_position # "Start" /\ HasFollowingSibling(Self))

\* stepped back onto an entry of a nested object that is not the last one
CommaWitness ==
    /\ route = "steps"
    /\ Called("regress")
    /\ Last.ret = "Some"
    /\ Len(frames) > 1
    /\ frames[Len(frames)].kind = "Object"
    /\ focus_position = "End"
    /\ current_line(Self, folds).comma

----------------------------------------------------------------------------
(* lines_from against the walk made by hand from the same cursor; twin     *)
(* keeps the cursor both start from.                                       *)

InitLines ==
    /\ jsons \in RootSeqs
    /\ folds \in FoldSets(jsons)
    /\ hist = <<>>
    /\ walked = <<>>
    /\ probe = Idle
    /\ route = "lines"
    /\ \E path \in WellFormedPaths(jsons) :
          \E c \in {from_path(jsons, path).cursor} :
              /\ top_index = c.top_index
              /\ frames = c.frames
              /\ focus = c.focus
              /\ focus_position = c.focus_position
              /\ twin = Some(c)
              /\ lines = <<current_line(c, folds)>>

\* cursor.advance(&folds) and, if it succeeded, cursor.current_line(&folds)
HandAdvance ==
    /\ ~Panicked
    /\ LET r == advance(jsons, Self, folds)
       IN  /\ SetCursor(r.cursor)
           /\ hist' = Remember(hist, Call("advance", r.ret, Self, route))
           /\ lines' = IF r.ret = "Some"
                       THEN Append(lines, current_line(r.cursor, folds))
                       ELSE lines
    /\ UNCHANGED <<jsons, folds, route, walked, twin, probe>>

\* start.lines_from(&folds).collect()
LinesFrom ==
    /\ probe.op = "none"
    /\ LET r == lines_from(jsons, twin[1], folds)
       IN  probe' = [op |-> "lines_from", ret |-> r.ret, lines |-> r.lines]
    /\ UNCHANGED <<jsons, top_index, frames, focus, focus_position, folds, hist,
                   route, lines, walked, twin>>

NextLines == HandAdvance \/ LinesFrom

SpecLines == InitLines /\ [][NextLines]_vars

HandDone == route = "lines" /\ hist # <<>> /\ Last.ret # "Some"

\* C23: lines_from yields the current line, then the line of the position
\* after each successful advance, and ends when advance returns None: the
\* lines made by hand from the same cursor are always a prefix of its output
\* and are the whole of it once the walk by hand has ended.
LinesFromIsHandWalk ==
    probe.op = "lines_from" =>
        /\ Len(lines) <= Len(probe.lines)
        /\ lines = SubSeq(probe.lines, 1, Len(lines))
        /\ HandDone => (lines = probe.lines
                        /\ (probe.ret = "Some") = (Last.ret = "None"))

LinesFromWitness ==
    /\ probe.op = "lines_from"
    /\ HandDone
    /\ Last.ret = "None"
    /\ folds # {}
    /\ Len(probe.lines) > 3
    /\ probe.lines[2].folded
    /\ twin[1].frames # <<>>

----------------------------------------------------------------------------
(* The indent of a line, as a function of the length of the frame stack.   *)

InitIndent ==
    /\ Parked
    /\ jsons = <<>>
    /\ route = "indent"
    /\ \E len \in 0..DeepNesting : probe = [op |-> "len", len |-> len]

\* let indent = self.frames.len() as u8
Convert ==
    /\ probe.op = "len"
    /\ probe' = [op |-> "indent", len |-> probe.len, indent |-> AsU8(probe.len)]
    /\ UNCHANGED <<jsons, top_index, frames, focus, focus_position, folds, hist,
                   route, lines, walked, twin>>

NextIndent == Convert

SpecIndent == InitIndent /\ [][NextIndent]_vars

\* C24: the indent of current_line is the number of frames on the cursor's
\* frame stack, at any nesting depth.
IndentIsDepth == probe.op = "indent" => probe.indent = probe.len

----------------------------------------------------------------------------
(* The value model against serde_json: JVRaw::from_serde and to_serde.     *)
(* A serde_json Value is one record shape; a Number keeps which of         *)
(* PosInt, NegInt and Float holds it, as serde_json's equality compares    *)
(* it; a Map is a function from its keys.                                  *)

NoFields == [k \in {} |-> ""]

Value(kind, variant, value, elems, fields) ==
    [kind |-> kind, variant |-> variant, value |-> value, elems |-> elems, fields |-> fields]

ValueNull == Value("Null", "", "null", <<>>, NoFields)
ValueBool(b) == Value("Bool", "", b, <<>>, NoFields)
ValueNumber(variant, x) == Value("Number", variant, x, <<>>, NoFields)
ValueString(x) == Value("String", "", x, <<>>, NoFields)
ValueArray(xs) == Value("Array", "", "", xs, NoFields)
ValueObject(obj) == Value("Object", "", "", <<>>, obj)

\* Result<Value, String>
Ok(v) == [ok |-> TRUE, value |-> v]
Err(msg) == [ok |-> FALSE, value |-> msg]

\* Map::iter: the keys in the order the map yields them
RECURSIVE MapKeys(_)
MapKeys(keys) ==
    IF keys = {}
    THEN <<>>
    ELSE LET k == CHOOSE x \in keys : TRUE
         IN  <<k>> \o MapKeys(keys \ {k})

\* variant of CollectArray whose array_set always writes index 0
CollectArrayAtZero(items) ==
    JVArray(IF items = <<>> THEN <<>> ELSE <<items[Len(items)]>>)

\* impl FromIterator<JVRaw> for JVRaw: array_set(i, x) for the i-th item
CollectArray(items) == JVArray(items)

\* impl FromIterator<(&str, JVRaw)> for JVRaw: object_set(k, v) for every item
CollectObject(items) == JVObject(items)

\* JVRaw::from_serde
RECURSIVE from_serde(_)
from_serde(v) ==
    CASE v.kind = "Null" -> JVNull
      [] v.kind = "Bool" -> JVBool(v.value)
      [] v.kind = "Number" -> JVNumber(v.value)
      [] v.kind = "String" -> JVString(v.value)
      [] v.kind = "Array" ->
            CollectArray([i \in 1..Len(v.elems) |-> from_serde(v.elems[i])])
      [] v.kind = "Object" ->
            LET keys == MapKeys(DOMAIN v.fields)
            IN  CollectObject([i \in 1..Len(keys) |->
                                  Entry(keys[i], from_serde(v.fields[keys[i]]))])

\* JVRaw::to_serde; an element that is not Ok makes expect panic
RECURSIVE to_serde(_)
to_serde(jv) ==
    CASE jv.kind = "Null" -> Ok(ValueNull)
      [] jv.kind = "Bool" -> Ok(ValueBool(jv.value))
      [] jv.kind = "Number" -> Ok(ValueNumber("Float", jv.value))
      [] jv.kind = "String" -> Ok(ValueString(jv.value))
      [] jv.kind = "Array" ->
            Ok(ValueArray([i \in 1..Len(jv.elems) |-> to_serde(jv.elems[i]).value]))
      [] jv.kind = "Object" ->
            Ok(ValueObject([k \in {jv.entries[i].key : i \in 1..Len(jv.entries)} |->
                               LET i == CHOOSE j \in 1..Len(jv.entries) :
                                            jv.entries[j].key = k
                               IN  to_serde(jv.entries[i].value).value]))
      [] OTHER -> Err("No error message")

\* the values of the round trip tests, and scalars of every kind of Number
SerdeScalars ==
    {ValueNull, ValueBool("true"), ValueString("hello"), ValueNumber("Float", "42"),
     ValueNumber("Float", "1.5"), ValueNumber("PosInt", "1"), ValueNumber("NegInt", "-1")}

SerdeKeys == {KeyNames[i] : i \in 1..(MaxIndex + 1)}

\* arrays and objects of at most MaxIndex + 1 of the given values
SerdeContainers(values) ==
    {ValueArray(xs) : xs \in UNION {[1..n -> values] : n \in 0..(MaxIndex + 1)}}
    \cup {ValueObject(obj) : obj \in UNION {[ks -> values] : ks \in SUBSET SerdeKeys}}

SerdeNested ==
    {ValueArray(<<ValueObject([k \in {"key"} |-> ValueArray(<<ValueNumber("Float", "1.5")>>)]),
                  ValueArray(<<>>)>>),
     ValueObject([k \in {"a", "b"} |->
                     IF k = "a"
                     THEN ValueObject([j \in {"b"} |-> ValueNumber("Float", "42")])
                     ELSE ValueArray(<<ValueNull, ValueString("hello")>>)]),
     ValueArray(<<ValueArray(<<ValueNumber("PosInt", "1")>>), ValueBool("false")>>)}

SerdeValues == SerdeScalars \cup SerdeContainers(SerdeScalars) \cup SerdeNested

InitSerde ==
    /\ Parked
    /\ jsons = <<>>
    /\ route = "serde"
    /\ \E v \in SerdeValues : probe = [op |-> "value", value |-> v]

\* tests::test_jv_roundtrip: JVRaw::from_serde(&value).to_serde()
RoundTrip ==
    /\ probe.op = "value"
    /\ LET jv == from_serde(probe.value)
       IN  probe' = [op |-> "roundtrip", value |-> probe.value, jv |-> jv,
                     roundtrip |-> to_serde(jv)]
    /\ UNCHANGED <<jsons, top_index, frames, focus, focus_position, folds, hist,
                   route, lines, walked, twin>>

NextSerde == RoundTrip

SpecSerde == InitSerde /\ [][NextSerde]_vars

\* the value with every Number held as a Float of the same value
RECURSIVE Floated(_)
Floated(v) ==
    CASE v.kind = "Number" -> ValueNumber("Float", v.value)
      [] v.kind = "Array" -> ValueArray([i \in 1..Len(v.elems) |-> Floated(v.elems[i])])
      [] v.kind = "Object" -> ValueObject([k \in DOMAIN v.fields |-> Floated(v.fields[k])])
      [] OTHER -> v

\* C25 as stated: from_serde then to_serde returns Ok of a value equal to
\* the one it was given, for every JSON value.
RoundTripOfEveryValue ==
    probe.op = "roundtrip" => probe.roundtrip = Ok(probe.value)

\* C25: from_serde then to_serde returns Ok of the value it was given with
\* every Number held as a floating-point Number of the same value; so the
\* result equals the value exactly when none of its Numbers is held as an
\* integer.
RoundTripFloatsNumbers ==
    probe.op = "roundtrip" =>
        /\ probe.roundtrip = Ok(Floated(probe.value))
        /\ (probe.roundtrip = Ok(probe.value)) <=> (Floated(probe.value) = probe.value)

RoundTripWitness ==
    /\ probe.op = "roundtrip"
    /\ probe.value.kind = "Object"
    /\ Cardinality(DOMAIN probe.value.fields) > 1
    /\ \E k \in DOMAIN probe.value.fields : probe.value.fields[k].kind = "Array"
    /\ probe.roundtrip = Ok(probe.value)

----------------------------------------------------------------------------
(* Stepping under folds.                                                   *)

\* the cursor on the same value at another sub-position
At(c, position) == MkCursor(c.top_index, c.frames, c.focus, position)

\* C26: advance from the Start of a folded container does what advance does
\* from the End of that container: it pops the top frame and advances it, or
\* with no frame moves to the next root or returns None; it pushes no frame.
FoldedStartAdvancesAsEnd ==
    (/\ Called("advance")
     /\ Last.before.focus_position = "Start"
     /\ IsContainer(Last.before.focus)
     /\ KeyOf(Last.before) \in folds)
    => LET fromEnd == advance(jsons, At(Last.before, "End"), {})
       IN  /\ Last.ret = fromEnd.ret
           /\ Last.ret = "Some" => Self = fromEnd.cursor
           /\ Last.ret = "None" => Self = Last.before
           /\ Len(frames) <= Len(Last.before.frames)
           /\ KeyOf(Self) # KeyOf(Last.before) \/ Last.ret = "None"

\* a folded container that is not the last child: advance lands on its sibling
FoldedStartWitness ==
    /\ Called("advance")
    /\ Last.ret = "Some"
    /\ Last.before.focus_position = "Start"
    /\ IsContainer(Last.before.focus)
    /\ ChildCount(Last.before.focus) > 0
    /\ KeyOf(Last.before) \in folds
    /\ Len(frames) = Len(Last.before.frames)
    /\ frames # <<>>
    /\ frames[Len(frames)].index = Last.before.frames[Len(frames)].index + 1

\* C27: after every successful regress, a new position whose fold key is in
\* the fold set is at Start; it is the value the step reaches with no folds,
\* so stepping back onto a folded container lands on its opening line, never
\* on its End.
RegressSurfacesAtStart ==
    (Called("regress") /\ Last.ret = "Some" /\ KeyOf(Self) \in folds)
    => /\ focus_position = "Start"
       /\ LET unfolded == regress(jsons, Last.before, {})
          IN  /\ unfolded.ret = "Some"
              /\ KeyOf(Self) = KeyOf(unfolded.cursor)
              /\ frames = unfolded.cursor.frames
              /\ focus = unfolded.cursor.focus
              /\ (/\ IsContainer(focus)
                  /\ KeyOf(Self) # KeyOf(Last.before)
                  /\ Len(frames) >= Len(Last.before.frames))
                 => unfolded.cursor.focus_position = "End"

\* back from the End of the parent onto its last child, a folded container with children
RegressSurfacesWitness ==
    /\ Called("regress")
    /\ Last.ret = "Some"
    /\ KeyOf(Self) \in folds
    /\ Last.before.focus_position = "End"
    /\ Len(frames) = Len(Last.before.frames) + 1
    /\ IsContainer(focus)
    /\ ChildCount(focus) > 0
    /\ focus_position = "Start"

\* the fold keys of the containers strictly above the cursor's focus
AncestorKeys(c) ==
    {<<c.top_index, SubSeq(to_path(c).frames, 1, k)>> : k \in 0..(Len(c.frames) - 1)}

\* C28: under a fixed fold set on containers, no position reached from new
\* by advance and regress lies inside a folded container: no container
\* strictly above the focus has its fold key in the fold set.
FoldedInteriorsUnvisited ==
    (FromNew /\ FoldsOnContainers) => AncestorKeys(Self) \cap folds = {}

\* the cursor is inside a container that follows a folded container with children
FoldedInteriorWitness ==
    /\ FromNew
    /\ Len(frames) > 1
    /\ \E key \in folds :
          /\ IsContainer(NodeAt(jsons, key))
          /\ ChildCount(NodeAt(jsons, key)) > 0
          /\ key[2] # <<>>
          /\ cmp(MkPath(key[1], key[2], "Start"), to_path(Self)) = "Less"

\* C29: under a fixed fold set on containers, from a cursor reached from new
\* by advances, a successful advance followed by regress, and a successful
\* regress followed by advance, each give back an equal cursor.
SymmetryUnderFolds ==
    (/\ Len(hist) > 1
     /\ <<Earlier.op, Last.op>> \in {<<"advance", "regress">>, <<"regress", "advance">>}
     /\ Earlier.ret = "Some"
     /\ Earlier.route = "advances"
     /\ FoldsOnContainers)
    => (Last.ret = "Some" /\ CursorEq(Self, Earlier.before))

\* stepped back onto a folded container with children and forward again past it
SymmetryUnderFoldsWitness ==
    /\ CalledTwo("regress", "advance")
    /\ Earlier.ret = "Some"
    /\ Earlier.route = "advances"
    /\ Last.ret = "Some"
    /\ KeyOf(Last.before) \in folds
    /\ IsContainer(Last.before.focus)
    /\ ChildCount(Last.before.focus) > 0
    /\ Last.before.frames # <<>>
    /\ CursorEq(Self, Earlier.before)

\* the entries of an object after the one at the index, in order
EntriesAfter(json, index) == SubSeq(json.entries, index + 2, Len(json.entries))

\* C30: in every cursor made by new, advance, regress, from_path or clone,
\* the iterator of each object frame yields exactly the entries after the
\* frame's index, in order, and the index of each array frame is within the
\* array.
IteratorAfterIndex ==
    \A k \in 1..Len(frames) :
        LET frame == frames[k]
        IN  IF frame.kind = "Object"
            THEN /\ frame.iterator = EntriesAfter(frame.json, frame.index)
                 /\ frame.index < Len(frame.json.entries)
            ELSE frame.index >= 0 /\ frame.index < ArrayLen(frame.json)

\* stepped back inside an object onto an entry that has later entries
IteratorWitness ==
    /\ Called("regress")
    /\ Last.ret = "Some"
    /\ Len(frames) > 0
    /\ Len(frames) = Len(Last.before.frames)
    /\ frames[Len(frames)].kind = "Object"
    /\ frames[Len(frames)].iterator # <<>>

----------------------------------------------------------------------------
(* Empty containers                                                        *)

\* the last call was made on an unfolded empty container at the position
EmptyAt(position) ==
    /\ hist # <<>>
    /\ IsContainer(Last.before.focus)
    /\ ChildCount(Last.before.focus) = 0
    /\ Last.before.focus_position = position
    /\ KeyOf(Last.before) \notin folds

\* the cursor is the one before the last call, moved to the position
MovedOnlyTo(position) ==
    /\ Last.ret = "Some"
    /\ top_index = Last.before.top_index
    /\ frames = Last.before.frames
    /\ focus = Last.before.focus
    /\ focus_position = position

\* C31: with the container not folded, advance from the Start of an empty
\* array or object lands on the End of the same container and pushes no
\* frame, and regress from its End lands on its Start and pushes no frame:
\* an empty container takes exactly two consecutive positions.
EmptyContainerTwoPositions ==
    /\ (Called("advance") /\ EmptyAt("Start")) => MovedOnlyTo("End")
    /\ (Called("regress") /\ EmptyAt("End")) => MovedOnlyTo("Start")

\* an empty object inside a container was entered and left again backwards
EmptyContainerWitness ==
    /\ CalledTwo("advance", "regress")
    /\ EmptyAt("End")
    /\ Last.before.focus.kind = "Object"
    /\ Earlier.before.focus_position = "Start"
    /\ KeyOf(Earlier.before) = KeyOf(Last.before)
    /\ frames # <<>>
    /\ MovedOnlyTo("Start")

----------------------------------------------------------------------------
(* Runs: a cursor reached by any steps is then stepped in one direction    *)
(* until the step returns None, as lines_from and the tests' loops do.     *)

\* the number of lines of the reference flattening
LineCount(js) == Len(json_to_lines(js))

InitRun ==
    /\ jsons \in RootSeqs
    /\ folds \in FoldSets(jsons)
    /\ hist = <<>>
    /\ lines = <<>>
    /\ walked = <<>>
    /\ twin = None
    /\ probe = Idle
    /\ route = "run"
    /\ \E c \in {new(jsons)[1]} \cup
                {from_path(jsons, path).cursor : path \in WellFormedPaths(jsons)} :
          /\ top_index = c.top_index
          /\ frames = c.frames
          /\ focus = c.focus
          /\ focus_position = c.focus_position

\* c.advance(&folds) or c.regress(&folds)
StepIn(direction, c) ==
    IF direction = "advance"
    THEN advance(jsons, c, folds)
    ELSE regress(jsons, c, folds)

\* a step on the way to the cursor the run starts from
Roam ==
    /\ probe.op = "none"
    /\ \E direction \in {"advance", "regress"} :
          LET r == StepIn(direction, Self)
          IN  /\ r.ret # "Panic"
              /\ SetCursor(r.cursor)
    /\ UNCHANGED <<jsons, folds, hist, route, lines, walked, twin, probe>>

\* the run starts: while let Some(()) = cursor.advance(..), or regress
Begin ==
    /\ probe.op = "none"
    /\ \E direction \in {"advance", "regress"} :
          probe' = [op |-> direction, ret |-> "Some", steps |-> 0]
    /\ UNCHANGED <<jsons, top_index, frames, focus, focus_position, folds, hist,
                   route, lines, walked, twin>>

\* one call of the run; the calls that returned Some are counted
Run ==
    /\ probe.op \in {"advance", "regress"}
    /\ probe.ret = "Some"
    /\ probe.steps <= LineCount(jsons)
    /\ LET r == StepIn(probe.op, Self)
       IN  /\ SetCursor(r.cursor)
           /\ probe' = [op |-> probe.op, ret |-> r.ret,
                        steps |-> probe.steps + (IF r.ret = "Some" THEN 1 ELSE 0)]
    /\ UNCHANGED <<jsons, folds, hist, route, lines, walked, twin>>

NextRun == Roam \/ Begin \/ Run

SpecRun == InitRun /\ [][NextRun]_vars

\* C32: from any cursor that steps can reach, under a fixed fold set, a run
\* of advance calls, and a run of regress calls, makes at most as many
\* successful steps as the reference flattening has lines and ends only by
\* returning None: neither direction can cycle.
TraversalTerminates ==
    probe.op \in {"advance", "regress"} =>
        /\ probe.steps <= LineCount(jsons)
        /\ probe.ret # "Panic"

\* a backward run over a folded container and several lines has been exhausted
TraversalWitness ==
    /\ probe.op = "regress"
    /\ probe.ret = "None"
    /\ probe.steps > 3
    /\ \E key \in folds : IsContainer(NodeAt(jsons, key))

----------------------------------------------------------------------------
(* The main loop: a view holding the cursor, the scroll position (twin)    *)
(* and the fold set, driven by keys.  View::visible_range is not part of   *)
(* the source at hand: whether the scroll position follows the cursor is   *)
(* left open, so both outcomes are taken.                                  *)

\* the view of a file just opened: cursor and scroll at Cursor::new, no folds
InitView ==
    /\ jsons \in RootSeqs
    /\ folds = {}
    /\ hist = <<>>
    /\ lines = <<>>
    /\ walked = <<>>
    /\ probe = Idle
    /\ route = "keys"
    /\ \E c \in {new(jsons)[1]} :
          /\ top_index = c.top_index
          /\ frames = c.frames
          /\ focus = c.focus
          /\ focus_position = c.focus_position
          /\ twin = Some(c)

\* the key handled last, and Panic if its handler panicked
Key(name, rets) == [op |-> name, ret |-> IF "Panic" \in rets THEN "Panic" ELSE "Some"]

Crashed == probe.op # "none" /\ probe.ret = "Panic"

\* Key::Down and Key::Up: the cursor steps, and the scroll position steps
\* the same way if the cursor has left the visible range
KeyStep(name, direction) ==
    /\ ~Crashed
    /\ LET r == StepIn(direction, Self)
       IN  \E follows \in BOOLEAN :
              LET s == IF follows /\ r.ret # "Panic"
                       THEN StepIn(direction, twin[1])
                       ELSE Ret("Some", twin[1])
              IN  /\ SetCursor(r.cursor)
                  /\ twin' = Some(s.cursor)
                  /\ probe' = Key(name, {r.ret, s.ret})
    /\ UNCHANGED <<jsons, folds, hist, route, lines, walked>>

KeyDown == KeyStep("Down", "advance")

KeyUp == KeyStep("Up", "regress")

\* Key::Char('z'): the fold key of the cursor's path is removed, or inserted
\* and a cursor at End moved to Start
KeyZ ==
    /\ ~Crashed
    /\ LET path == strip_position(to_path(Self))
       IN  IF path \in folds
           THEN /\ folds' = folds \ {path}
                /\ UNCHANGED focus_position
           ELSE /\ folds' = folds \cup {path}
                /\ focus_position' = IF focus_position = "End" THEN "Start" ELSE focus_position
    /\ probe' = Key("z", {})
    /\ UNCHANGED <<jsons, top_index, frames, focus, hist, route, lines, walked, twin>>

\* Key::Home: cursor at Cursor::new, scroll a clone of it
KeyHome ==
    /\ ~Crashed
    /\ LET c == new(jsons)[1]
           s == clone(jsons, c)
       IN  /\ SetCursor(c)
           /\ twin' = Some(s.cursor)
           /\ probe' = Key("Home", {s.ret})
    /\ UNCHANGED <<jsons, folds, hist, route, lines, walked>>

\* for _ in 0..n { c.regress(&folds); }
RECURSIVE RegressTimes(_, _, _, _)
RegressTimes(js, c, fds, n) ==
    IF n = 0
    THEN Ret("Some", c)
    ELSE LET r == regress(js, c, fds)
         IN  IF r.ret = "Panic" THEN r ELSE RegressTimes(js, r.cursor, fds, n - 1)

\* Key::End: cursor at Cursor::new_end, scroll a clone of it stepped back
\* line_limit - 1 times
KeyEnd ==
    /\ ~Crashed
    /\ \E line_limit \in 1..MaxLineLimit :
          LET c == new_end(jsons)[1]
              s == clone(jsons, c)
              t == IF s.ret = "Panic" THEN s
                   ELSE RegressTimes(jsons, s.cursor, folds, line_limit - 1)
          IN  /\ SetCursor(c)
              /\ twin' = Some(t.cursor)
              /\ probe' = Key("End", {t.ret})
    /\ UNCHANGED <<jsons, folds, hist, route, lines, walked>>

\* steps of the cursor interleaved with the fold toggle
NextToggle == KeyDown \/ KeyUp \/ KeyZ

SpecToggle == InitView /\ [][NextToggle]_vars

\* C33: when advance and regress are interleaved with the fold toggle of the
\* main loop, focus_position is Value exactly when the focus is a scalar in
\* every reachable state, and current_line on the cursor never reaches its
\* illegal json/focus_position branch.
PairsLegalUnderToggle ==
    /\ focus_position = "Value" <=> ~IsContainer(focus)
    /\ current_line(Self, folds).content.tag # "Panic"

\* the keys of the main loop that move the cursor or fold
NextKeys == KeyDown \/ KeyUp \/ KeyZ \/ KeyHome \/ KeyEnd

SpecKeys == InitView /\ [][NextKeys]_vars

\* the cursor is at the End of a folded container or strictly inside one
OnHiddenLine ==
    \/ /\ focus_position = "End"
       /\ IsContainer(focus)
       /\ KeyOf(Self) \in folds
    \/ \E key \in AncestorKeys(Self) \cap folds : IsContainer(NodeAt(jsons, key))

\* C34: after any sequence of the keys Down, Up, z, Home and End from a view
\* opened with no folds, the cursor is never at the End of a container whose
\* fold key is in the fold set and never strictly inside such a container.
CursorOnVisibleLine == ~OnHiddenLine

----------------------------------------------------------------------------
(* Rendering a viewport: render_lines next to the walk made by hand from   *)
(* the same starting cursor.                                               *)

\* start.render_lines(Some(&cursor), &folds, line_limit)
Render ==
    /\ probe.op = "none"
    /\ \E line_limit \in 1..MaxLineLimit :
          LET r == render_lines(jsons, twin[1], Some(Self), folds, line_limit)
          IN  probe' = [op |-> "render_lines", ret |-> r.ret, lines |-> r.lines,
                        line_limit |-> line_limit]
    /\ UNCHANGED <<jsons, top_index, frames, focus, focus_position, folds, hist,
                   route, lines, walked, twin>>

NextRender == HandAdvance \/ Render

SpecRender == InitLines /\ [][NextRender]_vars

\* the Lines of rendered lines
LinesOf(rendered) == [i \in 1..Len(rendered) |-> rendered[i].line]

\* C35: render_lines returns at most line_limit rendered lines: the line of
\* the starting position, then the lines of the following positions in the
\* order of the walk, fewer than line_limit only where the walk ends.
RenderWithinLimit ==
    probe.op = "render_lines" =>
        /\ Len(probe.lines) <= probe.line_limit
        /\ Len(lines) <= Len(probe.lines)
           => lines = SubSeq(LinesOf(probe.lines), 1, Len(lines))
        /\ (HandDone /\ Len(lines) >= probe.line_limit)
           => Len(probe.lines) = probe.line_limit

----------------------------------------------------------------------------
(* Two cursors over the same values, each moved on its own, the second     *)
(* also rebuilt from its Path; their Paths are compared and the cursors    *)
(* tested for equality.                                                    *)

\* what was last done to each cursor, and the results of the last comparison
Pair(self_op, twin_op, ret, eq) ==
    [op |-> "pair", self_op |-> self_op, twin_op |-> twin_op, ret |-> ret, eq |-> eq]

InitPair ==
    /\ jsons \in RootSeqs
    /\ folds \in FoldSets(jsons)
    /\ hist = <<>>
    /\ lines = <<>>
    /\ walked = <<>>
    /\ route = "pair"
    /\ probe = Pair("new", "new", "none", "none")
    /\ \E c \in {new(jsons)[1]} :
          /\ top_index = c.top_index
          /\ frames = c.frames
          /\ focus = c.focus
          /\ focus_position = c.focus_position
          /\ twin = Some(c)

\* a.advance(&folds) or a.regress(&folds)
StepFirst ==
    /\ \E direction \in {"advance", "regress"} :
          LET r == StepIn(direction, Self)
          IN  /\ r.ret = "Some"
              /\ SetCursor(r.cursor)
              /\ probe' = Pair(direction, probe.twin_op, "none", "none")
    /\ UNCHANGED <<jsons, folds, hist, route, lines, walked, twin>>

\* b.advance(&folds) or b.regress(&folds)
StepSecond ==
    /\ \E direction \in {"advance", "regress"} :
          LET r == StepIn(direction, twin[1])
          IN  /\ r.ret = "Some"
              /\ twin' = Some(r.cursor)
              /\ probe' = Pair(probe.self_op, direction, "none", "none")
    /\ UNCHANGED <<jsons, top_index, frames, focus, focus_position, folds, hist,
                   route, lines, walked>>

\* b = Cursor::from_path(jsons, &b.to_path())
RebuildSecond ==
    /\ LET r == from_path(jsons, to_path(twin[1]))
       IN  /\ r.ret = "Some"
           /\ twin' = Some(r.cursor)
    /\ probe' = Pair(probe.self_op, "from_path", "none", "none")
    /\ UNCHANGED <<jsons, top_index, frames, focus, focus_position, folds, hist,
                   route, lines, walked>>

\* a.to_path().cmp(&b.to_path()) and a == b
ComparePair ==
    /\ probe' = Pair(probe.self_op, probe.twin_op,
                     cmp(to_path(Self), to_path(twin[1])),
                     CursorEq(Self, twin[1]))
    /\ UNCHANGED <<jsons, top_index, frames, focus, focus_position, folds, hist,
                   route, lines, walked, twin>>

NextPair == StepFirst \/ StepSecond \/ RebuildSecond \/ ComparePair

SpecPair == InitPair /\ [][NextPair]_vars

Compared == probe.op = "pair" /\ probe.ret # "none"

\* C36: the Paths of two cursors reached over the same values by advance and
\* regress, under a fold set whose keys are paths of containers, always
\* compare as Less, Equal or Greater: Path::cmp never panics on them.
CmpNeverFailsOnOneTree ==
    (Compared /\ FoldsOnContainers)
    => probe.ret \in {"Less", "Equal", "Greater"}

\* a cursor at the End of a container was compared with one inside it
CmpOneTreeWitness ==
    /\ Compared
    /\ FoldsOnContainers
    /\ folds # {}
    /\ probe.twin_op = "regress"
    /\ probe.ret = "Greater"
    /\ top_index = twin[1].top_index
    /\ focus_position = "End"
    /\ StrictPrefix(to_path(Self).frames, to_path(twin[1]).frames)

\* C37: two cursors over the same values, reached from new by advance and
\* regress or rebuilt by from_path, are equal exactly when their Paths are
\* equal, whatever route left the iterators of their frames where they are.
EqualIffSamePath ==
    Compared => (probe.eq <=> (to_path(Self) = to_path(twin[1])))

\* a cursor that stepped back into an object equals one rebuilt from its Path
EqualPathWitness ==
    /\ Compared
    /\ probe.eq
    /\ probe.self_op = "regress"
    /\ probe.twin_op = "from_path"
    /\ frames # <<>>
    /\ frames[Len(frames)].kind = "Object"
    /\ to_path(Self) = to_path(twin[1])

====
